---- MODULE Spec2Model ----
(***************************************************************************)
(* Notification dispatch engine of thelounge-theme-external-notify.        *)
(*                                                                         *)
(* NotificationManager (lib/notification-manager.js) filters an inbound    *)
(* chat event, deduplicates it against a set of recently notified keys,    *)
(* and fans the notification out to every active notifier.  JavaScript     *)
(* runs each handler to completion: a step of this model is one such       *)
(* run, from the entry of a handler to its first await or its return.      *)
(*                                                                         *)
(* Strings that the code cuts or concatenates (network, channel, nick,     *)
(* message, dedup key) are sequences of one-character strings.             *)
(***************************************************************************)
EXTENDS Integers, Sequences, FiniteSets, Bags, TLC

VARIABLES
    filters,              \* this.config.filters
    notifiers,            \* names of this.notifiers (the active notifiers)
    recentNotifications,  \* this.recentNotifications, a Set of dedup keys
    inflight,             \* bag of the processMessage calls suspended at `await Promise.all`
    returned,             \* a settled processMessage call whose caller has not run yet
    cycle,                \* history: the calls that passed shouldNotify since the last tick
    direct,               \* a single direct call: its arguments and shouldNotify's verdict
    keyIn,                \* a pair of events handed to getDeduplicationKey
    keyOut,               \* the pair of keys it returned
    notifier,             \* one notifier object: its class, this.config, this._isSetup
    sent,                 \* the outcome of a send() call on that notifier
    doc,                  \* the configuration document of the identity, as persisted
    cmd,                  \* the last configuration command: its arguments and result
    host,                 \* the plugin state of the identity and its file system
    disk,                 \* the storage directory: the config file of each user
    pluginState,          \* the pluginState map of index.js, by (user, network)
    io,                   \* the last ConfigManager or host call: its arguments and result
    probe                 \* a call of a pure function: its arguments and result

registryVars == <<notifier, sent, doc, cmd, host>>

storeVars == <<disk, pluginState, io, probe>>

vars == <<filters, notifiers, recentNotifications, inflight, returned, cycle,
          direct, keyIn, keyOut, notifier, sent, doc, cmd, host,
          disk, pluginState, io, probe>>

engineVars == <<filters, notifiers, recentNotifications, inflight, returned, cycle>>

---------------------------------------------------------------------------
(* Bounds of the model *)

\* processMessage calls that may be suspended at the same time
MaxInflight == 2
\* calls passing shouldNotify that are logged between two cleanup ticks
MaxCycleCalls == 3

\* calls of the host's manager that may be suspended at the same time
MaxPending == 1
\* calls of load and save in one run of the config store
MaxStoreOps == 2
\* configuration commands issued in one run
MaxCommands == 2
\* pieces of text and placeholders in a template
MaxChunks == 3
\* assignments of registerVariables in one run
MaxAssignments == 2
\* parts written in a version string
MaxParts == 3
\* commands issued in one run of the per-service commands
MaxServiceCommands == 3
\* calls of network.addChannel in one run
MaxAdds == 2

(* Program constant *)

\* messageData.message.substring(0, 50)
KeyPrefixLen == 50

---------------------------------------------------------------------------
(* Strings *)

Rep(n, ch) == [i \in 1..n |-> ch]

Min(a, b) == IF a < b THEN a ELSE b

\* String.prototype.substring(0, n)
substring0(s, n) == SubSeq(s, 1, Min(Len(s), n))

---------------------------------------------------------------------------
(* Inputs *)

Providers == {"Prowl", "webhook"}

Networks == {<<"n">>}
ChanC == <<"#", "c">>
ChanD == <<"#", "d">>
ChanPM == <<"b", "o", "b">>
Channels == {ChanC, ChanD, ChanPM}
Nicks == {<<"b">>}

MsgShort == <<"h", "i">>
MsgOther == <<"y", "o">>
Messages == {MsgShort, MsgOther}

\* msg.type of the host: the three types the host hook lets through, and one
\* it does not
EventTypes == {"message", "action", "notice"}
Types == EventTypes \cup {"join"}

Events ==
    [type: Types, network: Networks, channel: Channels, nick: Nicks,
     message: Messages, timestamp: {1}, highlight: BOOLEAN, self: BOOLEAN]

\* the host's client object: client.user may be absent
ClientAway == [hasUser |-> TRUE, away |-> TRUE]
ClientPresent == [hasUser |-> TRUE, away |-> FALSE]
ClientNoUser == [hasUser |-> FALSE, away |-> FALSE]
Clients == {ClientAway, ClientPresent, ClientNoUser}

NoChannels == [present |-> FALSE, whitelist |-> {}, blacklist |-> {}]

ChannelFilters ==
    {NoChannels} \cup
    [present: {TRUE}, whitelist: {{}, {ChanC}}, blacklist: {{}, {ChanD}}]

FilterConfigs ==
    [onlyWhenAway: BOOLEAN, highlights: BOOLEAN, channels: ChannelFilters]

\* ConfigManager.getDefaultConfig().filters
DefaultFilters ==
    [onlyWhenAway |-> TRUE, highlights |-> TRUE, channels |-> NoChannels]

---------------------------------------------------------------------------
(* Provider registry: values, field descriptors, notifier objects *)

\* JavaScript values of a configuration field
Undefined == [t |-> "undefined", s |-> "", n |-> 0]
Null == [t |-> "null", s |-> "", n |-> 0]
Str(x) == [t |-> "string", s |-> x, n |-> 0]
Num(k) == [t |-> "number", s |-> "", n |-> k]
NaN == [t |-> "number", s |-> "NaN", n |-> 0]

\* Number.isInteger(value)
isInteger(v) == v.t = "number" /\ v # NaN

\* the notifier classes of lib/notifiers, by their `name`
NotifierClasses == {"Prowl", "ntfy", "webhook"}

\* the declared field names, as character sequences
apiKey == <<"a", "p", "i", "K", "e", "y">>
priority == <<"p", "r", "i", "o", "r", "i", "t", "y">>
application == <<"a", "p", "p", "l", "i", "c", "a", "t", "i", "o", "n">>
server == <<"s", "e", "r", "v", "e", "r">>
topic == <<"t", "o", "p", "i", "c">>
tags == <<"t", "a", "g", "s">>
url == <<"u", "r", "l">>
method == <<"m", "e", "t", "h", "o", "d">>
contentType == <<"c", "o", "n", "t", "e", "n", "t", "T", "y", "p", "e">>
headers == <<"h", "e", "a", "d", "e", "r", "s">>
bodyTemplate == <<"b", "o", "d", "y", "T", "e", "m", "p", "l", "a", "t", "e">>

\* sample strings
Key40 == "kkkkkkkkkkkkkkkkkkkkkkkkkkkkkkkkkkkkkkkk"
DefaultBody ==
    "{\"title\": \"{{title}}\", \"message\": \"{{message}}\", \"timestamp\": \"{{timestamp}}\"}"
RenderedBody ==
    "{\"title\": \"test\", \"message\": \"test\", \"timestamp\": \"test\"}"

\* new URL(value).protocol on the sample strings; "invalid" when the
\* constructor throws
protocolOf(x) ==
    CASE x \in {"https://ntfy.sh", "https://example.com/webhook"} -> "https:"
      [] x = "http://h/hook" -> "http:"
      [] x = "ftp://h/hook" -> "ftp:"
      [] OTHER -> "invalid"

\* String.prototype.toUpperCase on the sample strings
toUpperCase(x) ==
    CASE x \in {"POST", "post"} -> "POST"
      [] x \in {"GET", "get"} -> "GET"
      [] x \in {"DELETE", "delete"} -> "DELETE"
      [] OTHER -> x

\* value.replace(/\{\{[^}]+\}\}/g, 'test') on the sample strings
replacePlaceholders(x) == IF x = DefaultBody THEN RenderedBody ELSE x

\* JSON.parse on the sample strings: the kind of the parsed value, "error"
\* when it throws
jsonKind(x) ==
    CASE x \in {"{}", "{\"X-Token\": \"t\"}", RenderedBody} -> "object"
      [] x = "[]" -> "array"
      [] x = "1" -> "number"
      [] OTHER -> "error"

\* this.registerVariables of each class: required, default, typeof example
registerVariables(cls) ==
    CASE cls = "Prowl" ->
           (apiKey :> [required |-> TRUE, default |-> Str(""), exampleType |-> "string"]) @@
           (priority :> [required |-> FALSE, default |-> Num(0), exampleType |-> "number"]) @@
           (application :> [required |-> FALSE, default |-> Str("TheLounge"),
                            exampleType |-> "string"])
      [] cls = "ntfy" ->
           (server :> [required |-> FALSE, default |-> Str("https://ntfy.sh"),
                       exampleType |-> "string"]) @@
           (topic :> [required |-> TRUE, default |-> Str(""), exampleType |-> "string"]) @@
           (priority :> [required |-> FALSE, default |-> Num(3), exampleType |-> "number"]) @@
           (tags :> [required |-> FALSE, default |-> Str(""), exampleType |-> "string"])
      [] cls = "webhook" ->
           (url :> [required |-> TRUE, default |-> Str(""), exampleType |-> "string"]) @@
           (method :> [required |-> FALSE, default |-> Str("POST"), exampleType |-> "string"]) @@
           (contentType :> [required |-> FALSE, default |-> Str("application/json"),
                            exampleType |-> "string"]) @@
           (headers :> [required |-> FALSE, default |-> Str("{}"), exampleType |-> "string"]) @@
           (bodyTemplate :> [required |-> FALSE, default |-> Str(DefaultBody),
                             exampleType |-> "string"])

FieldKeys(cls) == DOMAIN registerVariables(cls)
RequiredKeys(cls) == {k \in FieldKeys(cls) : registerVariables(cls)[k].required}

\* variable.validate(value) of the field `key` of class `cls`
validateField(cls, key, v) ==
    CASE cls = "Prowl" /\ key = apiKey -> v.t = "string" /\ Len(v.s) = 40
      [] cls = "Prowl" /\ key = priority -> isInteger(v) /\ v.n >= -2 /\ v.n <= 2
      [] cls = "Prowl" /\ key = application ->
           v.t = "string" /\ Len(v.s) > 0 /\ Len(v.s) <= 256
      [] cls = "ntfy" /\ key = server -> v.t = "string" /\ protocolOf(v.s) # "invalid"
      [] cls = "ntfy" /\ key = topic -> v.t = "string" /\ Len(v.s) > 0
      [] cls = "ntfy" /\ key = priority -> isInteger(v) /\ v.n >= 1 /\ v.n <= 5
      [] cls = "ntfy" /\ key = tags -> v.t = "string"
      [] cls = "webhook" /\ key = url ->
           v.t = "string" /\ protocolOf(v.s) \in {"https:", "http:"}
      [] cls = "webhook" /\ key = method ->
           v.t = "string" /\ toUpperCase(v.s) \in {"GET", "POST", "PUT", "PATCH"}
      [] cls = "webhook" /\ key = contentType -> v.t = "string" /\ Len(v.s) > 0
      [] cls = "webhook" /\ key = headers -> v.t = "string" /\ jsonKind(v.s) = "object"
      [] cls = "webhook" /\ key = bodyTemplate ->
           v.t = "string" /\ Len(v.s) > 0 /\ jsonKind(replacePlaceholders(v.s)) # "error"
      [] OTHER -> FALSE

\* this.config[key]: undefined when the key is missing
Get(fields, key) == IF key \in DOMAIN fields THEN fields[key] ELSE Undefined

\* this.config[key] = value
Put(fields, key, v) ==
    [k \in DOMAIN fields \cup {key} |-> IF k = key THEN v ELSE fields[k]]

\* value === undefined || value === null || value === ''
isMissing(v) == v \in {Undefined, Null, Str("")}

\* a validation that looks at the required fields only
validate_RequiredOnly(cls, config) ==
    \A key \in RequiredKeys(cls) :
        LET value == Get(config.fields, key) IN
        ~isMissing(value) /\ validateField(cls, key, value)

\* BaseNotifier.validate() on a notifier of class cls whose this.config is
\* `config`
validate(cls, config) ==
    \A key \in FieldKeys(cls) :
        LET value == Get(config.fields, key) IN
        /\ ~(registerVariables(cls)[key].required /\ isMissing(value))
        /\ validateField(cls, key, value)

\* BaseNotifier.validateWithLogging(): the same verdict, with an error logged
validateWithLogging(cls, config) == validate(cls, config)

\* Object.entries(this.registerVariables): the fields in declaration order
FieldOrder(cls) ==
    CASE cls = "Prowl" -> <<apiKey, priority, application>>
      [] cls = "ntfy" -> <<server, topic, priority, tags>>
      [] cls = "webhook" -> <<url, method, contentType, headers, bodyTemplate>>

\* variable.validationError of the field `key` of class `cls`
validationError(cls, key) ==
    CASE cls = "Prowl" /\ key = apiKey -> "API key must be 40 characters"
      [] cls = "Prowl" /\ key = priority -> "Priority must be an integer between -2 and 2"
      [] cls = "Prowl" /\ key = application ->
           "Application name must be a non-empty string (max 256 chars)"
      [] cls = "ntfy" /\ key = server -> "Server must be a valid URL"
      [] cls = "ntfy" /\ key = topic -> "Topic must be a non-empty string"
      [] cls = "ntfy" /\ key = priority -> "Priority must be an integer between 1 and 5"
      [] cls = "ntfy" /\ key = tags -> "Tags must be a string"
      [] cls = "webhook" /\ key = url -> "URL must be a valid HTTPS or HTTP URL"
      [] cls = "webhook" /\ key = method -> "Method must be GET, POST, PUT, or PATCH"
      [] cls = "webhook" /\ key = contentType -> "Content-Type must be a string"
      [] cls = "webhook" /\ key = headers -> "Headers must be valid JSON object"
      [] cls = "webhook" /\ key = bodyTemplate -> "Body template must be valid JSON"

\* the two tests of one pass of the validation loop: the field stops the loop
fieldFails(cls, config, key) ==
    LET value == Get(config.fields, key) IN
    \/ registerVariables(cls)[key].required /\ isMissing(value)
    \/ ~validateField(cls, key, value)

\* the positions, in declaration order, of the fields that stop the loop
failingFields(cls, config) ==
    {i \in DOMAIN FieldOrder(cls) : fieldFails(cls, config, FieldOrder(cls)[i])}

\* the pass at which the loop returns false: the first failing field
firstFailing(cls, config) ==
    CHOOSE i \in failingFields(cls, config) :
        \A j \in failingFields(cls, config) : i <= j

\* a validation loop that logs the failure of a validator only, and is
\* silent about a required field that is missing
validationRun_SilentRequired(cls, config, logging) ==
    IF failingFields(cls, config) = {}
    THEN [ret |-> TRUE, logged |-> <<>>]
    ELSE LET key == FieldOrder(cls)[firstFailing(cls, config)]
             value == Get(config.fields, key) IN
         [ret |-> FALSE,
          logged |-> IF logging /\ ~(registerVariables(cls)[key].required /\ isMissing(value))
                     THEN <<validationError(cls, key)>>
                     ELSE <<>>]

\* the loop of validate() (logging FALSE) and of validateWithLogging()
\* (logging TRUE) on this.config: what it returns and the calls of
\* this.logger.error it makes, in order
validationRun(cls, config, logging) ==
    IF failingFields(cls, config) = {}
    THEN [ret |-> TRUE, logged |-> <<>>]
    ELSE [ret |-> FALSE,
          logged |-> IF logging
                     THEN <<validationError(cls, FieldOrder(cls)[firstFailing(cls, config)])>>
                     ELSE <<>>]

\* a constructor that defaults the required fields as well
applyDefaults_AllFields(cls, config) ==
    [config EXCEPT !.fields =
        [k \in DOMAIN config.fields \cup FieldKeys(cls) |->
            IF k \in FieldKeys(cls) /\ Get(config.fields, k) = Undefined
            THEN registerVariables(cls)[k].default
            ELSE Get(config.fields, k)]]

\* the constructor loop "Apply defaults for optional fields that are not set"
applyDefaults(cls, config) ==
    [config EXCEPT !.fields =
        [k \in DOMAIN config.fields \cup FieldKeys(cls) |->
            IF /\ k \in FieldKeys(cls)
               /\ ~registerVariables(cls)[k].required
               /\ Get(config.fields, k) = Undefined
            THEN registerVariables(cls)[k].default
            ELSE Get(config.fields, k)]]

\* a constructor that trusts the enabled flag alone
construct_NoValidation(cls, config) ==
    [cls |-> cls, config |-> applyDefaults(cls, config),
     isSetup |-> config.enabled]

\* new NotifierClass(config, logger); this.name is the class name
construct(cls, config) ==
    LET c == applyDefaults(cls, config) IN
    [cls |-> cls, config |-> c,
     isSetup |-> c.enabled /\ validateWithLogging(cls, c)]

\* get isMetadataMode()
isMetadataMode(n) == ~n.isSetup

\* a send that goes to the transport whatever the mode
send_NoGuard(n, outcome) ==
    [called |-> TRUE, threw |-> FALSE,
     state |-> IF outcome = "throw" THEN "rejected" ELSE "pending",
     error |-> IF outcome = "throw" THEN "Error" ELSE "none",
     transport |-> outcome # "throw"]

\* async send(notification): the promise it returns and whether the request
\* to the provider was started; an async function never throws to its caller
send(n, outcome) ==
    IF ~n.isSetup
    THEN [called |-> TRUE, threw |-> FALSE, state |-> "rejected",
          error |-> "not properly configured", transport |-> FALSE]
    ELSE [called |-> TRUE, threw |-> FALSE,
          state |-> IF outcome = "throw" THEN "rejected" ELSE "pending",
          error |-> IF outcome = "throw" THEN "Error" ELSE "none",
          transport |-> outcome # "throw"]

---------------------------------------------------------------------------
(* Provider registry: inputs and idle values *)

\* a valid and an invalid sample value of each field
GoodValue(cls, key) ==
    CASE cls = "Prowl" /\ key = apiKey -> Str(Key40)
      [] cls = "Prowl" /\ key = priority -> Num(2)
      [] cls = "Prowl" /\ key = application -> Str("irc")
      [] cls = "ntfy" /\ key = server -> Str("https://ntfy.sh")
      [] cls = "ntfy" /\ key = topic -> Str("alerts")
      [] cls = "ntfy" /\ key = priority -> Num(5)
      [] cls = "ntfy" /\ key = tags -> Str("irc,thelounge")
      [] cls = "webhook" /\ key = url -> Str("https://example.com/webhook")
      [] cls = "webhook" /\ key = method -> Str("post")
      [] cls = "webhook" /\ key = contentType -> Str("text/plain")
      [] cls = "webhook" /\ key = headers -> Str("{\"X-Token\": \"t\"}")
      [] cls = "webhook" /\ key = bodyTemplate -> Str(DefaultBody)

BadValue(cls, key) ==
    CASE cls = "Prowl" /\ key = apiKey -> Str("short")
      [] cls = "Prowl" /\ key = priority -> Num(5)
      [] cls = "Prowl" /\ key = application -> Num(7)
      [] cls = "ntfy" /\ key = server -> Str("not a url")
      [] cls = "ntfy" /\ key = topic -> Num(7)
      [] cls = "ntfy" /\ key = priority -> Num(0)
      [] cls = "ntfy" /\ key = tags -> Num(7)
      [] cls = "webhook" /\ key = url -> Str("ftp://h/hook")
      [] cls = "webhook" /\ key = method -> Str("DELETE")
      [] cls = "webhook" /\ key = contentType -> Num(7)
      [] cls = "webhook" /\ key = headers -> Str("[]")
      [] cls = "webhook" /\ key = bodyTemplate -> Str("{oops")

\* the values a field of a ServiceConfig is given: absent, null, empty, a
\* valid and an invalid one
FieldInputs(cls, key) ==
    {Undefined, Null, Str(""), GoodValue(cls, key), BadValue(cls, key)}

\* the ServiceConfig objects handed to the constructor of class cls; a
\* missing enabled flag reads as false
ServiceConfigs(cls) ==
    {[present |-> TRUE, enabled |-> e, fields |-> f] :
        e \in BOOLEAN,
        f \in {g \in [FieldKeys(cls) -> UNION {FieldInputs(cls, k) : k \in FieldKeys(cls)}] :
                 \A k \in FieldKeys(cls) : g[k] \in FieldInputs(cls, k)}}

\* no entry under config.services
NoService == [present |-> FALSE, enabled |-> FALSE, fields |-> (url :> Undefined)]

NoNotifier ==
    [built |-> FALSE, cls |-> "Prowl", given |-> NoService, config |-> NoService,
     isSetup |-> FALSE]

NotSent ==
    [called |-> FALSE, threw |-> FALSE, state |-> "none", error |-> "none",
     transport |-> FALSE]

---------------------------------------------------------------------------
(* Provider registry: configuration commands *)

UpperLetters ==
    <<"A", "B", "C", "D", "E", "F", "G", "H", "I", "J", "K", "L", "M",
      "N", "O", "P", "Q", "R", "S", "T", "U", "V", "W", "X", "Y", "Z">>
LowerLetters ==
    <<"a", "b", "c", "d", "e", "f", "g", "h", "i", "j", "k", "l", "m",
      "n", "o", "p", "q", "r", "s", "t", "u", "v", "w", "x", "y", "z">>

Letters == {UpperLetters[i] : i \in DOMAIN UpperLetters} \cup
           {LowerLetters[i] : i \in DOMAIN LowerLetters}

\* the lower-case and the upper-case form of every letter
LowerOf ==
    [c \in Letters |->
        IF \E i \in DOMAIN UpperLetters : UpperLetters[i] = c
        THEN LowerLetters[CHOOSE i \in DOMAIN UpperLetters : UpperLetters[i] = c]
        ELSE c]

UpperOf ==
    [c \in Letters |->
        IF \E i \in DOMAIN LowerLetters : LowerLetters[i] = c
        THEN UpperLetters[CHOOSE i \in DOMAIN LowerLetters : LowerLetters[i] = c]
        ELSE c]

lowerChar(c) == IF c \in Letters THEN LowerOf[c] ELSE c

upperChar(c) == IF c \in Letters THEN UpperOf[c] ELSE c

\* String.prototype.toLowerCase on a setting name
toLowerCase(name) == [i \in DOMAIN name |-> lowerChar(name[i])]

\* parseFloat(value) on the sample strings
parseFloat(x) ==
    CASE x = "2" -> Num(2)
      [] x = "9" -> Num(9)
      [] x = "2x" -> Num(2)
      [] OTHER -> NaN

\* get defaultServiceConfig(): enabled false and every field at its default
defaultServiceConfig(cls) ==
    [present |-> TRUE, enabled |-> FALSE,
     fields |-> [k \in FieldKeys(cls) |-> registerVariables(cls)[k].default]]

\* the keys of registerVariables that match the setting name
matchingKeys(cls, setting) ==
    {key \in FieldKeys(cls) : toLowerCase(key) = toLowerCase(setting)}

NoKey == <<>>

\* a lookup that compares the names as they are
actualKeyOf_Exact(cls, setting) ==
    IF setting \in FieldKeys(cls) THEN setting ELSE NoKey

\* Object.keys(this.registerVariables).find(
\*     key => key.toLowerCase() === setting.toLowerCase())
actualKeyOf(cls, setting) ==
    IF matchingKeys(cls, setting) = {} THEN NoKey
    ELSE CHOOSE key \in matchingKeys(cls, setting) : TRUE

\* "Basic type parsing": the switch on typeof variable.example
parseValue(cls, key, value) ==
    IF registerVariables(cls)[key].exampleType = "number"
    THEN parseFloat(value)
    ELSE Str(value)

NoResult ==
    [success |-> FALSE, kind |-> "none", named |-> NoKey, valid |-> {},
     autoEnabled |-> FALSE]

\* an auto-enable that does not look at the other fields
shouldAutoEnable_Always(cls, entry) == ~entry.enabled

\* !config.services[this.name].enabled && tempNotifier.validate()
shouldAutoEnable(cls, entry) == ~entry.enabled /\ validate(cls, entry)

\* BaseNotifier.handleConfig(config, setting, value) on a notifier of class
\* cls: the services of the document after the call, and the result object
\* (`named` is the setting name shown in the first message, `valid` the
\* names listed in the second)
handleConfig(cls, services, setting, value) ==
    LET entry0 == IF services[cls].present THEN services[cls]
                  ELSE defaultServiceConfig(cls)
        created == [services EXCEPT ![cls] = entry0]
        actualKey == actualKeyOf(cls, setting)
    IN
    IF actualKey = NoKey
    THEN [services |-> created,
          result |-> [NoResult EXCEPT !.kind = "unknown", !.named = setting,
                                      !.valid = FieldKeys(cls)]]
    ELSE
    LET parsedValue == parseValue(cls, actualKey, value) IN
    IF parsedValue = NaN
    THEN [services |-> created,
          result |-> [NoResult EXCEPT !.kind = "not a number", !.named = setting]]
    ELSE IF ~validateField(cls, actualKey, parsedValue)
    THEN [services |-> created,
          result |-> [NoResult EXCEPT !.kind = "invalid"]]
    ELSE
    LET entry1 == [entry0 EXCEPT !.fields = Put(@, actualKey, parsedValue)]
        auto == shouldAutoEnable(cls, entry1)
        entry2 == [entry1 EXCEPT !.enabled = IF auto THEN TRUE ELSE @]
    IN  [services |-> [services EXCEPT ![cls] = entry2],
         result |-> [success |-> TRUE, kind |-> "updated", named |-> actualKey,
                     valid |-> {}, autoEnabled |-> auto]]

\* the keys that may appear under config.services: the names the notifiers
\* write, the lower-case name of the README examples, and an unknown one
ServiceKeys == NotifierClasses \cup {"prowl", "bogus"}

NoServices == [k \in ServiceKeys |-> NoService]

NoDoc == [filters |-> DefaultFilters, services |-> NoServices]

NoCmd ==
    [count |-> 0, category |-> "none", cls |-> "Prowl", setting |-> NoKey,
     value |-> "", before |-> NoDoc, result |-> NoResult, saved |-> FALSE]

\* no plugin state: notifications off, nothing stored beyond the defaults
NoHost ==
    [enabled |-> FALSE, hasManager |-> FALSE, caseSensitive |-> TRUE, stored |-> NoDoc]

RegistryIdle ==
    /\ notifier = NoNotifier
    /\ sent = NotSent
    /\ doc = NoDoc
    /\ cmd = NoCmd
    /\ host = NoHost

---------------------------------------------------------------------------
(* Provider registry: inputs of the configuration commands *)

upperCaseName(name) == [i \in DOMAIN name |-> upperChar(name[i])]

mixedCaseName(name) ==
    [i \in DOMAIN name |-> IF i % 2 = 1 THEN upperChar(name[i]) ELSE lowerChar(name[i])]

\* the declared name, and the same name in lower, upper and mixed case
Casings(key) == {key, toLowerCase(key), upperCaseName(key), mixedCaseName(key)}

\* names that no class declares
UnknownSettings == {<<"a", "p", "i", "_", "k", "e", "y">>}

SettingNames(cls) == UNION {Casings(key) : key \in FieldKeys(cls)} \cup UnknownSettings

\* the value argument of a command
ValueStrings == {"2", "9", "2x", "abc", Key40}

\* the classes whose services are configured
ConfigClasses == {"Prowl", "ntfy"}

\* `new NotifierClass()`: the notifier a command works with, built from an
\* empty configuration
EmptyConfig(cls) ==
    [present |-> TRUE, enabled |-> FALSE, fields |-> [k \in FieldKeys(cls) |-> Undefined]]

\* entries a stored document may hold for a service: none, the default entry,
\* a hand-written one with the required fields only, a complete one
StoredEntries(cls) ==
    {NoService, defaultServiceConfig(cls)} \cup
    {[present |-> TRUE, enabled |-> FALSE,
      fields |-> [k \in RequiredKeys(cls) |-> GoodValue(cls, k)]]} \cup
    {[present |-> TRUE, enabled |-> en,
      fields |-> [k \in FieldKeys(cls) |-> GoodValue(cls, k)]] : en \in BOOLEAN}

---------------------------------------------------------------------------
(* NotificationManager: construction from a configuration document *)

\* the notifier modules of lib/notifiers and the class each one exports
NotifierFiles == {"prowl", "ntfy", "webhook"}
classOfFile(file) == IF file = "prowl" THEN "Prowl" ELSE file

\* the service key in lower case
lowerKey(key) == IF key = "Prowl" THEN "prowl" ELSE key

\* require(`./notifiers/${serviceName}`) finds a module: by its exact name
\* on a case-sensitive file system, by its name in any case otherwise
loadable(key, caseSensitive) ==
    IF caseSensitive THEN key \in NotifierFiles ELSE lowerKey(key) \in NotifierFiles

\* a loop body that keeps the notifier whatever its mode
initializeOne_NoModeCheck(map, key, serviceConfig, caseSensitive) ==
    IF ~serviceConfig.present \/ ~serviceConfig.enabled THEN map
    ELSE IF ~loadable(key, caseSensitive) THEN map
    ELSE map \cup {classOfFile(lowerKey(key))}

\* one round of the loop of initializeNotifiers: the names in this.notifiers
\* after the entry `key` of config.services was handled
initializeOne(map, key, serviceConfig, caseSensitive) ==
    IF ~serviceConfig.present THEN map
    ELSE IF ~serviceConfig.enabled THEN map
    ELSE IF ~loadable(key, caseSensitive) THEN map
    ELSE LET newNotifier == construct(classOfFile(lowerKey(key)), serviceConfig) IN
         IF ~isMetadataMode(newNotifier) THEN map \cup {newNotifier.cls} ELSE map

\* initializeNotifiers(): every round only adds to the map, and a failing
\* round is caught, so the map is the union of what each entry adds
initializeNotifiers(services, caseSensitive) ==
    UNION {initializeOne({}, key, services[key], caseSensitive) : key \in DOMAIN services}

\* a complete entry, and an enabled one whose required fields are invalid
ValidEntry(cls, en) ==
    [present |-> TRUE, enabled |-> en,
     fields |-> [k \in FieldKeys(cls) |-> GoodValue(cls, k)]]

InvalidEntry(cls) ==
    [present |-> TRUE, enabled |-> TRUE,
     fields |-> [k \in FieldKeys(cls) |->
                   IF k \in RequiredKeys(cls) THEN BadValue(cls, k) ELSE GoodValue(cls, k)]]

\* the documents found on disk when the plugin starts
ManagerDocs ==
    {[filters |-> DefaultFilters,
      services |-> [k \in ServiceKeys |->
                      CASE k = "Prowl" -> p1
                        [] k = "prowl" -> p2
                        [] k = "webhook" -> w
                        [] k = "bogus" -> b
                        [] OTHER -> NoService]] :
        p1 \in {NoService, ValidEntry("Prowl", TRUE), InvalidEntry("Prowl")},
        p2 \in {NoService, ValidEntry("Prowl", TRUE)},
        w \in {ValidEntry("webhook", TRUE), ValidEntry("webhook", FALSE),
               InvalidEntry("webhook")},
        b \in {NoService, ValidEntry("webhook", TRUE)}}

\* the arguments of /notify config filter <setting> <value>
onlyWhenAway == <<"o", "n", "l", "y", "W", "h", "e", "n", "A", "w", "a", "y">>
highlights == <<"h", "i", "g", "h", "l", "i", "g", "h", "t", "s">>
FilterSettings == {onlyWhenAway, highlights, <<"c", "h", "a", "n", "n", "e", "l", "s">>}
FilterValues ==
    {<<"t", "r", "u", "e">>, <<"F", "a", "l", "s", "e">>, <<"m", "a", "y", "b", "e">>}

---------------------------------------------------------------------------
(* Config store and templates: idle values *)

\* no config file in the storage directory
NoDisk == <<>>

\* no plugin state created yet
NoStates == <<>>

NoIo == [op |-> "none"]

NoProbe == [fn |-> "none"]

StoreIdle ==
    /\ disk = NoDisk
    /\ pluginState = NoStates
    /\ io = NoIo
    /\ probe = NoProbe

---------------------------------------------------------------------------
(* ConfigManager: JavaScript values, validateConfig, load, save *)

Bool(b) == [t |-> "boolean", s |-> "", n |-> IF b THEN 1 ELSE 0]

\* an array, and an object with the properties `fields`
Arr == [t |-> "array", s |-> "", n |-> 0]
Obj(fields) == [t |-> "object", s |-> "", n |-> 0, f |-> fields]

\* typeof v
typeOf(v) == IF v.t \in {"null", "array"} THEN "object" ELSE v.t

\* the truth value of v in a condition
truthy(v) ==
    CASE v.t \in {"undefined", "null"} -> FALSE
      [] v.t = "boolean" -> v.n = 1
      [] v.t = "number" -> v # NaN /\ v.n # 0
      [] v.t = "string" -> v.s # ""
      [] OTHER -> TRUE

\* v.name on a value that is neither null nor undefined
prop(v, name) ==
    IF v.t = "object" /\ name \in DOMAIN v.f THEN v.f[name] ELSE Undefined

\* FormatTemplate.getDefaults()
getDefaults ==
    Obj([title |-> Str("{{network}}"),
         titleWithChannel |-> Str("{{network}} - {{channel}}"),
         message |-> Str("<{{nick}}> {{message}}"),
         actionMessage |-> Str("* {{nick}} {{message}}")])

\* getDefaultConfig()
getDefaultConfig ==
    Obj([enabled |-> Bool(FALSE),
         channelName |-> Str("external-notify"),
         services |-> Obj(NoServices),
         filters |-> Obj([onlyWhenAway |-> Bool(TRUE), highlights |-> Bool(TRUE)]),
         format |-> getDefaults])

\* the outcome of a call: a value, or an exception
Returns(v) == [threw |-> FALSE, value |-> v]
Throws == [threw |-> TRUE, value |-> Undefined]

\* validateConfig(config): reading a property of null or undefined throws
validateConfig(config) ==
    IF config.t \in {"undefined", "null"} THEN Throws
    ELSE LET defaults == getDefaultConfig.f
             typed(v, type, name, dflt) ==
                 IF typeOf(prop(v, name)) = type THEN prop(v, name) ELSE dflt[name]
             svc == IF truthy(prop(config, "services")) THEN prop(config, "services")
                         ELSE defaults.services
             flt == IF truthy(prop(config, "filters")) THEN prop(config, "filters")
                        ELSE Obj(<<>>)
             fmt == IF truthy(prop(config, "format")) THEN prop(config, "format")
                       ELSE Obj(<<>>)
         IN  Returns(Obj(
               [enabled |-> typed(config, "boolean", "enabled", defaults),
                channelName |-> typed(config, "string", "channelName", defaults),
                services |-> IF truthy(svc) /\ typeOf(svc) # "object"
                             THEN Obj(NoServices) ELSE svc,
                filters |-> Obj([k \in {"onlyWhenAway", "highlights"} |->
                                   typed(flt, "boolean", k, defaults.filters.f)]),
                format |-> Obj([k \in {"title", "titleWithChannel", "message",
                                       "actionMessage"} |->
                                   typed(fmt, "string", k, defaults.format.f)])]))

\* JSON.parse(JSON.stringify(v)) of a field value: NaN is written as null
jsonValue(v) == IF v = NaN THEN Null ELSE v

\* JSON.parse(JSON.stringify(entry)) of a service entry: a property whose
\* value is undefined is not written (an entry that is not present stands
\* for a key the object does not have)
jsonEntry(entry) ==
    IF ~entry.present THEN entry
    ELSE
    [entry EXCEPT !.fields =
        [k \in {j \in DOMAIN entry.fields : entry.fields[j] # Undefined} |->
            jsonValue(entry.fields[k])]]

\* JSON.parse(JSON.stringify(validated)) of a validated document
jsonRoundTrip(validated) ==
    LET svc == validated.f.services IN
    IF svc.t # "object" THEN validated
    ELSE [validated EXCEPT !.f.services =
            Obj([k \in DOMAIN svc.f |-> jsonEntry(svc.f[k])])]

\* the config file of a user: absent, present but not readable, not JSON,
\* or the text of the JSON value `json`
NoFile == [kind |-> "absent", json |-> Undefined]
Unreadable == [kind |-> "unreadable", json |-> Undefined]
Corrupt == [kind |-> "corrupt", json |-> Undefined]
TextOf(v) == [kind |-> "text", json |-> v]

\* load(): existsSync, readFileSync, JSON.parse and validateConfig inside
\* try/catch, the default configuration otherwise
load(file) ==
    IF file.kind = "text" /\ ~validateConfig(file.json).threw
    THEN Returns(validateConfig(file.json).value)
    ELSE Returns(getDefaultConfig)

\* what the file system does to a save
StorageConditions == {"ok", "noDir", "mkdirFails", "notWritable", "writeFails"}

\* a save that reports success whatever happened to the write
save_AlwaysTrue(config, file, storage) ==
    LET r == validateConfig(config) IN
    IF r.threw THEN [ret |-> Returns(Bool(FALSE)), file |-> file]
    ELSE IF storage \in {"ok", "noDir"}
    THEN [ret |-> Returns(Bool(TRUE)), file |-> TextOf(jsonRoundTrip(r.value))]
    ELSE [ret |-> Returns(Bool(TRUE)), file |-> file]

\* save(config): what it returns and the file it leaves.  writeFileSync
\* opens the file for writing, which empties it, and then writes: a write
\* that fails after the open leaves a file that is not JSON.
save(config, file, storage) ==
    LET r == validateConfig(config) IN
    IF r.threw THEN [ret |-> Returns(Bool(FALSE)), file |-> file]
    ELSE IF storage \in {"mkdirFails", "notWritable"}
    THEN [ret |-> Returns(Bool(FALSE)), file |-> file]
    ELSE IF storage = "writeFails"
    THEN [ret |-> Returns(Bool(FALSE)), file |-> Corrupt]
    ELSE [ret |-> Returns(Bool(TRUE)), file |-> TextOf(jsonRoundTrip(r.value))]

---------------------------------------------------------------------------
(* FormatTemplate: strings as characters, process *)

\* the characters of the constant strings of format-template.js
chars(x) ==
    CASE x = "" -> <<>>
      [] x = "date" -> <<"d", "a", "t", "e">>
      [] x = "timestamp" -> <<"t", "i", "m", "e", "s", "t", "a", "m", "p">>
      [] x = "time" -> <<"t", "i", "m", "e">>
      [] x = "nick" -> <<"n", "i", "c", "k">>
      [] x = "user" -> <<"u", "s", "e", "r">>
      [] x = "message" -> <<"m", "e", "s", "s", "a", "g", "e">>
      [] x = "text" -> <<"t", "e", "x", "t">>
      [] x = "channel" -> <<"c", "h", "a", "n", "n", "e", "l">>
      [] x = "network" -> <<"n", "e", "t", "w", "o", "r", "k">>
      [] x = "server" -> <<"s", "e", "r", "v", "e", "r">>
      [] x = "type" -> <<"t", "y", "p", "e">>
      [] x = "action" -> <<"a", "c", "t", "i", "o", "n">>
      [] x = "notice" -> <<"n", "o", "t", "i", "c", "e">>
      [] x = "join" -> <<"j", "o", "i", "n">>
      [] x = "PM" -> <<"P", "M">>
      [] x = "{{network}}" ->
           <<"{", "{", "n", "e", "t", "w", "o", "r", "k", "}", "}">>
      [] x = "{{network}} - {{channel}}" ->
           <<"{", "{", "n", "e", "t", "w", "o", "r", "k", "}", "}", " ", "-", " ",
             "{", "{", "c", "h", "a", "n", "n", "e", "l", "}", "}">>
      [] x = "<{{nick}}> {{message}}" ->
           <<"<", "{", "{", "n", "i", "c", "k", "}", "}", ">", " ",
             "{", "{", "m", "e", "s", "s", "a", "g", "e", "}", "}">>
      [] x = "* {{nick}} {{message}}" ->
           <<"*", " ", "{", "{", "n", "i", "c", "k", "}", "}", " ",
             "{", "{", "m", "e", "s", "s", "a", "g", "e", "}", "}">>

\* the string made of the characters c
RECURSIVE str(_)
str(c) == IF c = <<>> THEN "" ELSE Head(c) \o str(Tail(c))

\* a string value that carries its characters
Txt(c) == [t |-> "string", s |-> str(c), n |-> 0, c |-> c]

\* the characters of a string value
charsOf(v) == IF "c" \in DOMAIN v THEN v.c ELSE chars(v.s)

\* the source `\{\{${key}\}\}` of the regular expression: the text {{key}}
placeholder(key) == <<"{", "{">> \o key \o <<"}", "}">>

\* the pattern matches the string s at position i
matchAt(s, i, pat) ==
    /\ i + Len(pat) - 1 <= Len(s)
    /\ SubSeq(s, i, i + Len(pat) - 1) = pat

\* GetSubstitution of String.prototype.replace for a pattern without
\* groups: in the replacement text $$ is a dollar, $& the matched text, $`
\* the text before the match and $' the text after it
RECURSIVE substitution(_, _, _, _)
substitution(rep, s, i, pat) ==
    IF rep = <<>> THEN <<>>
    ELSE IF Len(rep) >= 2 /\ rep[1] = "$" /\ rep[2] \in {"$", "&", "`", "'"}
         THEN (CASE rep[2] = "$" -> <<"$">>
                 [] rep[2] = "&" -> pat
                 [] rep[2] = "`" -> SubSeq(s, 1, i - 1)
                 [] rep[2] = "'" -> SubSeq(s, i + Len(pat), Len(s)))
              \o substitution(SubSeq(rep, 3, Len(rep)), s, i, pat)
         ELSE <<rep[1]>> \o substitution(Tail(rep), s, i, pat)

\* s.replace(new RegExp(pat, 'g'), rep), from position i on: every match,
\* left to right, without looking again at the text put in
RECURSIVE replaceAll(_, _, _, _)
replaceAll(s, i, pat, rep) ==
    IF i > Len(s) THEN <<>>
    ELSE IF matchAt(s, i, pat)
         THEN substitution(rep, s, i, pat) \o replaceAll(s, i + Len(pat), pat, rep)
         ELSE <<s[i]>> \o replaceAll(s, i + 1, pat, rep)

\* the loop of process over Object.entries(variables), which are in the
\* order of insertion: result = result.replace(placeholder, value || '')
RECURSIVE processLoop(_, _)
processLoop(result, entries) ==
    IF entries = <<>> THEN result
    ELSE LET e == Head(entries)
             rep == IF truthy(e.value) THEN charsOf(e.value) ELSE <<>> IN
         processLoop(replaceAll(result, 1, placeholder(e.key), rep), Tail(entries))

\* FormatTemplate.process(template, variables): the characters of the
\* string it returns
process(template, variables) ==
    IF ~truthy(template) \/ typeOf(template) # "string"
    THEN <<>>
    ELSE processLoop(charsOf(template), variables)

---------------------------------------------------------------------------
(* WebhookNotifier.processTemplate *)

\* the loop of processTemplate over Object.entries(values):
\* result = result.replace(new RegExp(`{{${key}}}`, 'g'), value), with a
\* value that is a string
RECURSIVE processTemplate(_, _)
processTemplate(result, values) ==
    IF values = <<>> THEN result
    ELSE processTemplate(
             replaceAll(result, 1, placeholder(Head(values).key),
                        charsOf(Head(values).value)),
             Tail(values))

---------------------------------------------------------------------------
(* FormatTemplate.getVariables and NotificationManager.formatNotification *)

\* the last digit of the clock reading of the instant ts
digitOf(ts) == IF ts = 1 THEN "1" ELSE "2"

\* timestamp.toLocaleString('en-US', {month, day, hour, minute})
toLocaleString(ts) == <<"J", "a", "n", " ", "1", ",", " ", "0", "0", ":", "0", digitOf(ts)>>

\* timestamp.toISOString()
toISOString(ts) ==
    <<"2", "0", "2", "5", "-", "0", "1", "-", "0", "1", "T", "0", "0", ":", "0",
      digitOf(ts), ":", "0", "0", ".", "0", "0", "0", "Z">>

\* timestamp.toLocaleTimeString('en-US', {hour, minute})
toLocaleTimeString(ts) == <<"0", "0", ":", "0", digitOf(ts)>>

\* s.startsWith('#')
startsWithHash(s) == Len(s) >= 1 /\ s[1] = "#"

\* FormatTemplate.getVariables(messageData): the entries of the object it
\* returns, in the order of the literal
getVariables(messageData) ==
    LET isPrivateMessage ==
            messageData.channel = <<>> \/ ~startsWithHash(messageData.channel)
        channelDisplay == IF isPrivateMessage THEN chars("PM") ELSE messageData.channel
    IN << [key |-> chars("date"), value |-> Txt(toLocaleString(messageData.timestamp))],
          [key |-> chars("timestamp"), value |-> Txt(toISOString(messageData.timestamp))],
          [key |-> chars("time"), value |-> Txt(toLocaleTimeString(messageData.timestamp))],
          [key |-> chars("nick"), value |-> Txt(messageData.nick)],
          [key |-> chars("user"), value |-> Txt(messageData.nick)],
          [key |-> chars("message"), value |-> Txt(messageData.message)],
          [key |-> chars("text"), value |-> Txt(messageData.message)],
          [key |-> chars("channel"), value |-> Txt(channelDisplay)],
          [key |-> chars("network"), value |-> Txt(messageData.network)],
          [key |-> chars("server"), value |-> Txt(messageData.network)],
          [key |-> chars("type"), value |-> Txt(chars(messageData.type))] >>

\* formatNotification: titleTemplate and messageTemplate
chooseTemplates(format, messageData) ==
    LET isChannelMessage ==
            messageData.channel # <<>> /\ startsWithHash(messageData.channel)
    IN [title |-> IF isChannelMessage /\ truthy(prop(format, "titleWithChannel"))
                  THEN prop(format, "titleWithChannel")
                  ELSE prop(format, "title"),
        message |-> IF messageData.type = "action" /\ truthy(prop(format, "actionMessage"))
                    THEN prop(format, "actionMessage")
                    ELSE prop(format, "message")]

\* NotificationManager.formatNotification(messageData), this.config.format
\* being configFormat
formatNotification(configFormat, messageData) ==
    LET format == IF truthy(configFormat) THEN configFormat ELSE getDefaults
        variables == getVariables(messageData)
        chosen == chooseTemplates(format, messageData)
    IN [titleTemplate |-> chosen.title,
        messageTemplate |-> chosen.message,
        title |-> process(chosen.title, variables),
        message |-> process(chosen.message, variables),
        timestamp |-> messageData.timestamp]

---------------------------------------------------------------------------
(* BaseNotifier: the registerVariables setter *)

\* a function value: the validator a provider wrote, or () => true
Fn(name) == [t |-> "function", s |-> name, n |-> 0]

\* value[key].hasOwnProperty(attribute): a descriptor is a function from the
\* names of its own properties to their values
hasOwnProperty(descriptor, attribute) == attribute \in DOMAIN descriptor

\* value[key].attribute = v
setAttribute(descriptor, attribute, v) ==
    [a \in DOMAIN descriptor \cup {attribute} |->
        IF a = attribute THEN v ELSE descriptor[a]]

\* the body of the loop of the setter for one key
normalizeDescriptor(key, descriptor) ==
    LET d1 == IF ~hasOwnProperty(descriptor, "required")
              THEN setAttribute(descriptor, "required", Bool(FALSE))
              ELSE descriptor
        d2 == IF ~hasOwnProperty(d1, "example") /\ hasOwnProperty(d1, "default")
              THEN setAttribute(d1, "example", d1["default"])
              ELSE d1
        d3 == IF ~hasOwnProperty(d2, "validationError")
              THEN setAttribute(d2, "validationError",
                                Str("Invalid value for " \o str(key)))
              ELSE d2
    IN IF ~hasOwnProperty(d3, "validate")
       THEN setAttribute(d3, "validate", Fn("() => true"))
       ELSE d3

\* set registerVariables(value): the map stored in this._registerVariables
setRegisterVariables(value) ==
    [key \in DOMAIN value |-> normalizeDescriptor(key, value[key])]

---------------------------------------------------------------------------
(* version-check: compareVersions, checkForUpdate *)

Digits == <<"0", "1", "2", "3", "4", "5", "6", "7", "8", "9">>

\* the value of a decimal digit
digitValue(ch) == (CHOOSE i \in DOMAIN Digits : Digits[i] = ch) - 1

isDigit(ch) == \E i \in DOMAIN Digits : Digits[i] = ch

\* s.replace(/^v/, '')
stripV(s) == IF Len(s) >= 1 /\ s[1] = "v" THEN Tail(s) ELSE s

\* s.split('.'): the pieces between the dots
RECURSIVE split(_, _)
split(s, piece) ==
    IF s = <<>> THEN <<piece>>
    ELSE IF Head(s) = "." THEN <<piece>> \o split(Tail(s), <<>>)
         ELSE split(Tail(s), Append(piece, Head(s)))

\* the number a string of digits writes
RECURSIVE decimal(_, _)
decimal(s, acc) == IF s = <<>> THEN acc ELSE decimal(Tail(s), 10 * acc + digitValue(Head(s)))

\* Number(piece): 0 for the empty string, the number for digits, NaN for
\* any other text of the inputs
NumberOf(piece) ==
    IF \A i \in DOMAIN piece : isDigit(piece[i])
    THEN Num(decimal(piece, 0))
    ELSE NaN

\* parts[i] || 0, parts[i] being undefined beyond the end of the array
partOrZero(parts, i) ==
    IF i <= Len(parts) /\ truthy(NumberOf(parts[i])) THEN NumberOf(parts[i]).n ELSE 0

\* a comparison that stops after major and minor
compareVersions_NoPatch(current, latest) ==
    LET currentParts == split(stripV(current), <<>>)
        latestParts == split(stripV(latest), <<>>)
        differing == {i \in 1..2 : partOrZero(currentParts, i) # partOrZero(latestParts, i)}
    IN IF differing = {} THEN 0
       ELSE LET i == CHOOSE k \in differing : \A j \in differing : k <= j IN
            IF partOrZero(currentParts, i) < partOrZero(latestParts, i) THEN -1 ELSE 1

\* compareVersions(current, latest): the loop returns at the first of the
\* three positions where the parts differ
compareVersions(current, latest) ==
    LET currentParts == split(stripV(current), <<>>)
        latestParts == split(stripV(latest), <<>>)
        differing == {i \in 1..3 : partOrZero(currentParts, i) # partOrZero(latestParts, i)}
    IN IF differing = {} THEN 0
       ELSE LET i == CHOOSE k \in differing : \A j \in differing : k <= j IN
            IF partOrZero(currentParts, i) < partOrZero(latestParts, i) THEN -1 ELSE 1

\* checkForUpdate(currentVersion, repoUrl), `fetched` being the outcome of
\* fetchRemotePackageJson: a package with a version, a package without one
\* (latestVersion.replace throws inside the try) or a rejection
checkForUpdate(currentVersion, fetched) ==
    IF fetched.outcome = "package" /\ fetched.hasVersion
    THEN [updateAvailable |-> compareVersions(currentVersion, fetched.version) < 0,
          currentVersion |-> currentVersion, latestVersion |-> Txt(fetched.version),
          error |-> FALSE]
    ELSE [updateAvailable |-> FALSE, currentVersion |-> currentVersion,
          latestVersion |-> Null, error |-> TRUE]

---------------------------------------------------------------------------
(* NotificationManager: pure parts *)

\* shouldNotify with the filters.highlights switch left out
shouldNotify_IgnoreSwitch(f, messageData, client) ==
    IF f.onlyWhenAway /\ client.hasUser /\ ~client.away
    THEN FALSE
    ELSE messageData.highlight

\* shouldNotify(messageData, client)
shouldNotify(f, messageData, client) ==
    IF f.onlyWhenAway /\ client.hasUser /\ ~client.away
    THEN FALSE
    ELSE IF f.highlights /\ messageData.highlight
         THEN TRUE
         ELSE FALSE

\* getDeduplicationKey keyed on the whole message
getDeduplicationKey_WholeMessage(messageData) ==
    messageData.network \o <<"-">> \o messageData.channel \o <<"-">>
        \o messageData.nick \o <<"-">> \o messageData.message

\* getDeduplicationKey(messageData)
getDeduplicationKey(messageData) ==
    LET msgHash == substring0(messageData.message, KeyPrefixLen)
    IN  messageData.network \o <<"-">> \o messageData.channel \o <<"-">>
            \o messageData.nick \o <<"-">> \o msgHash

\* a lookup that never finds the key
isDuplicate_Never(recent, dedupKey) == FALSE

\* this.recentNotifications.has(dedupKey)
isDuplicate(recent, dedupKey) == dedupKey \in recent

\* a call that does not record its key
recordKey_Forget(recent, dedupKey) == recent

\* this.recentNotifications.add(dedupKey)
recordKey(recent, dedupKey) == recent \cup {dedupKey}

\* a tick that leaves the set as it is
cleanupRecentNotifications_Keep(recent) == recent

\* cleanupRecentNotifications(): this.recentNotifications.clear()
cleanupRecentNotifications(recent) == {}

---------------------------------------------------------------------------
(* Promises *)

\* state of the promise notifier.send(notification) returns, per provider;
\* "none" when send was not invoked on it
SendStates == {"none", "pending", "resolved", "rejected"}

\* A send is an async function: an exception thrown in its body before the
\* first suspension ("throw") comes back as an already rejected promise; a
\* transport call comes back pending.
asyncSend(outcome) == IF outcome = "throw" THEN "rejected" ELSE "pending"

\* the loop over Object.entries(this.notifiers): send is invoked on every
\* notifier, in one run, before the await
invokeAll(active, outcomes) ==
    [n \in Providers |-> IF n \in active THEN asyncSend(outcomes[n]) ELSE "none"]

\* .then(() => { sentVia.push(name); })
onFulfilled(sentVia, name) == Append(sentVia, name)

\* a failure handler that lists the provider all the same
onRejected_Push(sentVia, name) == Append(sentVia, name)

\* .catch(err => { this.logger.error(...) })
onRejected(sentVia, name) == sentVia

\* the chain without its .catch: a rejected send stays rejected
chainState_NoCatch(sendState) ==
    IF sendState = "resolved" THEN "fulfilled" ELSE sendState

\* state of the promise send(...).then(...).catch(...) pushed on `promises`
chainState(sendState) ==
    IF sendState \in {"resolved", "rejected"} THEN "fulfilled" ELSE sendState

\* Promise.all over the pushed promises: rejected as soon as one is rejected,
\* fulfilled once all are fulfilled
promiseAll(states) ==
    IF \E n \in DOMAIN states : states[n] = "rejected" THEN "rejected"
    ELSE IF \E n \in DOMAIN states : states[n] = "pending" THEN "pending"
    ELSE "fulfilled"

\* the promises array of a suspended call
promisesOf(call) ==
    [n \in {m \in Providers : call.sends[m] # "none"} |-> chainState(call.sends[n])]

---------------------------------------------------------------------------
(* Results *)

NoSends == [n \in Providers |-> "none"]

\* no settled call is waiting for its caller
NoReturn == [status |-> "none", null |-> TRUE, services |-> <<>>, sends |-> NoSends]

\* `return null`
NullResult == [status |-> "resolved", null |-> TRUE, services |-> <<>>, sends |-> NoSends]

\* `return { notification, services: sentVia, messageData }` once the await
\* is over, or the rejection of the await; `sends` keeps the state of every
\* send at that moment
resultOf(call) ==
    [status |-> IF promiseAll(promisesOf(call)) = "rejected" THEN "rejected" ELSE "resolved",
     null |-> FALSE,
     services |-> call.sentVia,
     sends |-> call.sends]

\* the suspended calls (calls suspended in the same state are one element)
Suspended == BagToSet(inflight)

Range(s) == {s[i] : i \in DOMAIN s}

---------------------------------------------------------------------------
(* NotificationManager: operations *)

\* a processMessage that records the key before it asks shouldNotify
processMessage_RecordFirst(messageData, client) ==
    LET dedupKey == getDeduplicationKey(messageData) IN
    /\ returned = NoReturn
    /\ IF ~shouldNotify(filters, messageData, client)
       THEN /\ returned' = NullResult
            /\ recentNotifications' = recordKey(recentNotifications, dedupKey)
            /\ UNCHANGED <<inflight, cycle>>
       ELSE /\ Len(cycle) < MaxCycleCalls
            /\ IF isDuplicate(recentNotifications, dedupKey)
               THEN /\ returned' = NullResult
                    /\ cycle' = Append(cycle,
                           [event |-> messageData, key |-> dedupKey,
                            outcome |-> "null", invoked |-> {}])
                    /\ UNCHANGED <<recentNotifications, inflight>>
               ELSE /\ BagCardinality(inflight) < MaxInflight
                    /\ recentNotifications' = recordKey(recentNotifications, dedupKey)
                    /\ \E outcomes \in [notifiers -> {"throw", "io"}] :
                         LET sends == invokeAll(notifiers, outcomes) IN
                         /\ inflight' = inflight (+) SetToBag(
                                {[key |-> dedupKey, sends |-> sends, sentVia |-> <<>>,
                                  cur |-> TRUE]})
                         /\ cycle' = Append(cycle,
                                [event |-> messageData, key |-> dedupKey,
                                 outcome |-> "sent",
                                 invoked |-> {n \in Providers : sends[n] # "none"}])
                    /\ returned' = NoReturn
    /\ UNCHANGED <<filters, notifiers>>

\* processMessage(messageData, client), up to its await or its `return null`
processMessage(messageData, client) ==
    LET dedupKey == getDeduplicationKey(messageData) IN
    /\ returned = NoReturn
    /\ IF ~shouldNotify(filters, messageData, client)
       THEN /\ returned' = NullResult
            /\ UNCHANGED <<recentNotifications, inflight, cycle>>
       ELSE /\ Len(cycle) < MaxCycleCalls
            /\ IF isDuplicate(recentNotifications, dedupKey)
               THEN /\ returned' = NullResult
                    /\ cycle' = Append(cycle,
                           [event |-> messageData, key |-> dedupKey,
                            outcome |-> "null", invoked |-> {}])
                    /\ UNCHANGED <<recentNotifications, inflight>>
               ELSE /\ BagCardinality(inflight) < MaxInflight
                    /\ recentNotifications' = recordKey(recentNotifications, dedupKey)
                    /\ \E outcomes \in [notifiers -> {"throw", "io"}] :
                         LET sends == invokeAll(notifiers, outcomes) IN
                         /\ inflight' = inflight (+) SetToBag(
                                {[key |-> dedupKey, sends |-> sends, sentVia |-> <<>>,
                                  cur |-> TRUE]})
                         /\ cycle' = Append(cycle,
                                [event |-> messageData, key |-> dedupKey,
                                 outcome |-> "sent",
                                 invoked |-> {n \in Providers : sends[n] # "none"}])
                    /\ returned' = NoReturn
    /\ UNCHANGED <<filters, notifiers>>

\* a pending send of a suspended call settles, and the handler chained on it runs
SettleSend(call, n, outcome) ==
    /\ returned = NoReturn
    /\ call \in Suspended
    /\ call.sends[n] = "pending"
    /\ inflight' = (inflight (-) SetToBag({call})) (+) SetToBag(
            {[call EXCEPT
                !.sends[n] = outcome,
                !.sentVia = IF outcome = "resolved"
                            THEN onFulfilled(@, n)
                            ELSE onRejected(@, n)]})
    /\ UNCHANGED <<filters, notifiers, recentNotifications, returned, cycle>>

\* `await Promise.all(promises)` of a suspended call is over: the call settles
Return(call) ==
    /\ returned = NoReturn
    /\ call \in Suspended
    /\ promiseAll(promisesOf(call)) # "pending"
    /\ returned' = resultOf(call)
    /\ inflight' = inflight (-) SetToBag({call})
    /\ UNCHANGED <<filters, notifiers, recentNotifications, cycle>>

\* The caller of processMessage gets the settled promise: the reaction chained
\* on it runs in the microtask that follows the settlement, before the event
\* loop starts any other handler.  The host's reaction,
\* .then(result => { if (result && result.services.length > 0) ... }), changes
\* nothing of the engine.
Deliver ==
    /\ returned # NoReturn
    /\ returned' = NoReturn
    /\ UNCHANGED <<filters, notifiers, recentNotifications, inflight, cycle>>

\* history: after a tick the suspended calls belong to an earlier cycle
endCycle(calls) ==
    LET old(c) == [c EXCEPT !.cur = FALSE]
        olds == {old(c) : c \in BagToSet(calls)}
    IN  [o \in olds |-> CopiesIn(o, calls) + CopiesIn([o EXCEPT !.cur = TRUE], calls)]

\* the setInterval callback of the constructor: cleanupRecentNotifications()
Cleanup ==
    /\ returned = NoReturn
    /\ recentNotifications' = cleanupRecentNotifications(recentNotifications)
    /\ cycle' = <<>>
    /\ inflight' = endCycle(inflight)
    /\ UNCHANGED <<filters, notifiers, returned>>

---------------------------------------------------------------------------
(* Specification of the engine under a stream of events *)

\* the events of one channel that the host hook lets through
DispatchEvents ==
    {e \in Events : e.channel = ChanC /\ e.type = "message" /\ ~e.self}

NoEvent ==
    [type |-> "message", network |-> <<"n">>, channel |-> ChanC, nick |-> <<"b">>,
     message |-> MsgShort, timestamp |-> 1, highlight |-> FALSE, self |-> FALSE]

NoDirect ==
    [active |-> FALSE, called |-> FALSE, verdict |-> FALSE,
     event |-> NoEvent, client |-> ClientNoUser]

NoKeys == <<>>

EngineInit ==
    /\ recentNotifications = {}
    /\ inflight = EmptyBag
    /\ returned = NoReturn
    /\ cycle = <<>>

Init ==
    /\ filters = DefaultFilters
    /\ notifiers \in SUBSET Providers
    /\ EngineInit
    /\ direct = NoDirect
    /\ keyIn = <<NoEvent, NoEvent>>
    /\ keyOut = NoKeys
    /\ StoreIdle
    /\ RegistryIdle

\* the host hands an event to processMessage
Dispatch ==
    /\ \E e \in DispatchEvents, c \in Clients : processMessage(e, c)
    /\ UNCHANGED <<direct, keyIn, keyOut, registryVars, storeVars>>

Settle ==
    /\ \E call \in Suspended, n \in Providers, o \in {"resolved", "rejected"} :
         SettleSend(call, n, o)
    /\ UNCHANGED <<direct, keyIn, keyOut, registryVars, storeVars>>

Finish ==
    /\ \E call \in Suspended : Return(call)
    /\ UNCHANGED <<direct, keyIn, keyOut, registryVars, storeVars>>

Tick ==
    /\ Cleanup
    /\ UNCHANGED <<direct, keyIn, keyOut, registryVars, storeVars>>

Resume ==
    /\ Deliver
    /\ UNCHANGED <<direct, keyIn, keyOut, registryVars, storeVars>>

Next == Dispatch \/ Settle \/ Finish \/ Resume \/ Tick

Spec == Init /\ [][Next]_vars

---------------------------------------------------------------------------
(* Specification of one direct call on a freshly built manager, for every   *)
(* filter configuration, event and client                                   *)

InitFilter ==
    /\ filters \in FilterConfigs
    /\ notifiers \in (SUBSET Providers) \ {{}}
    /\ EngineInit
    /\ direct \in [active: {TRUE}, called: {FALSE}, verdict: {FALSE},
                    event: Events, client: Clients]
    /\ keyIn = <<NoEvent, NoEvent>>
    /\ keyOut = NoKeys
    /\ StoreIdle
    /\ RegistryIdle

\* shouldNotify and processMessage are called with the chosen arguments
DirectCall ==
    /\ direct.active
    /\ ~direct.called
    /\ direct' = [direct EXCEPT
            !.called = TRUE,
            !.verdict = shouldNotify(filters, direct.event, direct.client)]
    /\ processMessage(direct.event, direct.client)
    /\ UNCHANGED <<keyIn, keyOut, registryVars, storeVars>>

NextFilter == DirectCall \/ Settle \/ Finish \/ Resume

SpecFilter == InitFilter /\ [][NextFilter]_vars

\* The same call under the scheduling of the event loop: a call that is
\* ready to start, a continuation whose promise has settled and a reaction
\* chained on a settled promise are run.  Prowl, ntfy and webhook hand the
\* request to https.request / http.request without a timeout, so nothing
\* forces a pending send to settle: Settle has no fairness condition.
SpecFilterLive ==
    SpecFilter /\ WF_vars(DirectCall) /\ WF_vars(Finish) /\ WF_vars(Resume)

---------------------------------------------------------------------------
(* Specification of getDeduplicationKey on pairs of events *)

KeyNetworks == {<<"n">>, <<"m">>}
KeyChannels == {ChanC, ChanPM}

\* two messages that agree on the first KeyPrefixLen characters and differ
\* after them, their common prefix, and two messages of exactly KeyPrefixLen
\* characters that differ in the last one
MsgLongX == Rep(KeyPrefixLen, "a") \o <<"x">>
MsgLongY == Rep(KeyPrefixLen, "a") \o <<"y">>
MsgEdgeX == Rep(KeyPrefixLen - 1, "a") \o <<"x">>
MsgEdgeY == Rep(KeyPrefixLen - 1, "a") \o <<"y">>
MsgExact == Rep(KeyPrefixLen, "a")
KeyMessages == {MsgShort, MsgLongX, MsgLongY, MsgEdgeX, MsgEdgeY, MsgExact, <<>>}

KeyEvents ==
    [type: {"message", "action"}, network: KeyNetworks, channel: KeyChannels,
     nick: Nicks, message: KeyMessages, timestamp: {1, 2}, highlight: BOOLEAN,
     self: {FALSE}]

InitKey ==
    /\ filters = DefaultFilters
    /\ notifiers = {}
    /\ EngineInit
    /\ direct = NoDirect
    /\ keyIn \in KeyEvents \X KeyEvents
    /\ keyOut = NoKeys
    /\ StoreIdle
    /\ RegistryIdle

ComputeKeys ==
    /\ keyOut = NoKeys
    /\ keyOut' = <<getDeduplicationKey(keyIn[1]), getDeduplicationKey(keyIn[2])>>
    /\ UNCHANGED <<engineVars, direct, keyIn, registryVars, storeVars>>

NextKey == ComputeKeys

SpecKey == InitKey /\ [][NextKey]_vars

---------------------------------------------------------------------------
(* Specification of one notifier object: construction from a ServiceConfig, *)
(* then a send, for every class and every configuration                     *)

InitNotifier ==
    /\ filters = DefaultFilters
    /\ notifiers = {}
    /\ EngineInit
    /\ direct = NoDirect
    /\ keyIn = <<NoEvent, NoEvent>>
    /\ keyOut = NoKeys
    /\ StoreIdle
    /\ \E cls \in NotifierClasses : \E c \in ServiceConfigs(cls) :
         notifier = [built |-> FALSE, cls |-> cls, given |-> c, config |-> c,
                     isSetup |-> FALSE]
    /\ sent = NotSent
    /\ doc = NoDoc
    /\ cmd = NoCmd
    /\ host = NoHost

\* new NotifierClass(serviceConfig, logger)
Construct ==
    /\ ~notifier.built
    /\ LET n == construct(notifier.cls, notifier.given) IN
       notifier' = [notifier EXCEPT !.built = TRUE, !.config = n.config,
                                    !.isSetup = n.isSetup]
    /\ UNCHANGED <<engineVars, direct, keyIn, keyOut, sent, doc, cmd, host, storeVars>>

\* notifier.send(notification)
Send ==
    /\ notifier.built
    /\ ~sent.called
    /\ \E outcome \in {"throw", "io"} : sent' = send(notifier, outcome)
    /\ UNCHANGED <<engineVars, direct, keyIn, keyOut, notifier, doc, cmd, host, storeVars>>

NextNotifier == Construct \/ Send

SpecNotifier == InitNotifier /\ [][NextNotifier]_vars

---------------------------------------------------------------------------
(* Specification of the configuration of one service: handleConfig called   *)
(* on a configuration object, directly or by the config command             *)

InitConfig ==
    /\ filters = DefaultFilters
    /\ notifiers = {}
    /\ EngineInit
    /\ direct = NoDirect
    /\ keyIn = <<NoEvent, NoEvent>>
    /\ keyOut = NoKeys
    /\ StoreIdle
    /\ sent = NotSent
    /\ cmd = NoCmd
    /\ \E cls \in ConfigClasses : \E entry \in StoredEntries(cls) :
         LET n == construct(cls, EmptyConfig(cls))
             d == [NoDoc EXCEPT !.services[cls] = entry]
         IN  /\ notifier = [built |-> TRUE, cls |-> cls, given |-> EmptyConfig(cls),
                            config |-> n.config, isSetup |-> n.isSetup]
             /\ doc = d
             /\ host = [NoHost EXCEPT !.stored = d]

\* notifier.handleConfig(config, setting, value) on the configuration object
\* at hand, as the tests call it
CallHandleConfig ==
    /\ cmd.count < MaxCommands
    /\ \E setting \in SettingNames(notifier.cls), value \in ValueStrings :
         \E r \in {handleConfig(notifier.cls, doc.services, setting, value)} :
         /\ doc' = [doc EXCEPT !.services = r.services]
         /\ cmd' = [count |-> cmd.count + 1, category |-> "service",
                    cls |-> notifier.cls, setting |-> setting, value |-> value,
                    before |-> doc, result |-> r.result, saved |-> FALSE]
    /\ UNCHANGED <<engineVars, direct, keyIn, keyOut, notifier, sent, host, storeVars>>

\* /notify config <service> <setting> <value>: the document is loaded, the
\* lower-cased setting goes to handleConfig, and the document is saved when
\* the call succeeded (the save itself may fail)
ConfigService ==
    /\ cmd.count < MaxCommands
    /\ \E name \in SettingNames(notifier.cls), value \in ValueStrings,
          saveOk \in BOOLEAN :
         \E setting \in {toLowerCase(name)} :
         \E r \in {handleConfig(notifier.cls, host.stored.services, setting, value)} :
         LET config == host.stored
             after == [config EXCEPT !.services = r.services]
             saved == r.result.success /\ saveOk
         IN  /\ doc' = after
             /\ host' = [host EXCEPT !.stored = IF saved THEN after ELSE @]
             /\ cmd' = [count |-> cmd.count + 1, category |-> "service",
                        cls |-> notifier.cls, setting |-> setting, value |-> value,
                        before |-> config, result |-> r.result, saved |-> saved]
    /\ UNCHANGED <<engineVars, direct, keyIn, keyOut, notifier, sent, storeVars>>

NextConfig == CallHandleConfig \/ ConfigService

SpecConfig == InitConfig /\ [][NextConfig]_vars

---------------------------------------------------------------------------
(* Specification of the plugin of one identity: the document on disk, the   *)
(* enable command that builds the manager, filter commands, inbound events  *)

\* the events and clients of the host in this specification
ManagerEvents == {e \in DispatchEvents : e.message = MsgShort}
ManagerClients == {ClientAway, ClientPresent}

InitManager ==
    /\ filters = DefaultFilters
    /\ notifiers = {}
    /\ EngineInit
    /\ direct = NoDirect
    /\ keyIn = <<NoEvent, NoEvent>>
    /\ keyOut = NoKeys
    /\ StoreIdle
    /\ notifier = NoNotifier
    /\ sent = NotSent
    /\ doc = NoDoc
    /\ cmd = NoCmd
    /\ \E d \in ManagerDocs, cs \in BOOLEAN :
         host = [enabled |-> FALSE, hasManager |-> FALSE, caseSensitive |-> cs,
                 stored |-> d]

\* /notify enable: enableNotifications loads the document and builds a new
\* NotificationManager from it; calls of an earlier manager stay suspended
\* (`limit` bounds the number of commands of a behaviour)
enableNotifications(limit) ==
    /\ cmd.count < limit
    /\ returned = NoReturn
    /\ LET config == host.stored IN
       IF \A k \in DOMAIN config.services : ~config.services[k].present
       THEN /\ cmd' = [NoCmd EXCEPT !.count = cmd.count + 1, !.category = "enable"]
            /\ UNCHANGED <<engineVars, doc, host>>
       ELSE /\ notifiers' = initializeNotifiers(config.services, host.caseSensitive)
            /\ filters' = config.filters
            /\ recentNotifications' = {}
            /\ cycle' = <<>>
            /\ inflight' = endCycle(inflight)
            /\ doc' = config
            /\ host' = [host EXCEPT !.enabled = TRUE, !.hasManager = TRUE]
            /\ cmd' = [NoCmd EXCEPT !.count = cmd.count + 1, !.category = "enable",
                                    !.result = [NoResult EXCEPT !.success = TRUE,
                                                                !.kind = "enabled"],
                                    !.saved = TRUE]
            /\ UNCHANGED returned
    /\ direct' = NoDirect
    /\ UNCHANGED <<keyIn, keyOut, notifier, sent, storeVars>>

Enable == enableNotifications(MaxCommands)

\* /notify disable: disableNotifications clears state.enabled; the manager
\* object stays in the plugin state
Disable ==
    /\ cmd.count < MaxCommands
    /\ returned = NoReturn
    /\ host' = [host EXCEPT !.enabled = FALSE]
    /\ cmd' = [NoCmd EXCEPT !.count = cmd.count + 1, !.category = "disable",
                            !.result = [NoResult EXCEPT !.success = TRUE,
                                                        !.kind = "disabled"],
                            !.saved = TRUE]
    /\ direct' = NoDirect
    /\ UNCHANGED <<engineVars, keyIn, keyOut, notifier, sent, doc, storeVars>>

\* setBooleanFilterSetting on a loaded document
setBooleanFilterSetting(config, settingKey, value) ==
    LET boolValue == toLowerCase(value) IN
    IF boolValue # <<"t", "r", "u", "e">> /\ boolValue # <<"f", "a", "l", "s", "e">>
    THEN [config |-> config, ok |-> FALSE]
    ELSE [config |-> [config EXCEPT !.filters[settingKey] = (boolValue = <<"t", "r", "u", "e">>)],
          ok |-> TRUE]

\* /notify config filter <setting> <value>: the document is loaded, the flag
\* is set on the loaded copy, and the copy is saved
ConfigFilter ==
    /\ cmd.count < MaxCommands
    /\ returned = NoReturn
    /\ \E name \in FilterSettings, value \in FilterValues, saveOk \in BOOLEAN :
         \E setting \in {toLowerCase(name)} :
         \E r \in {IF setting = toLowerCase(onlyWhenAway)
                   THEN setBooleanFilterSetting(host.stored, "onlyWhenAway", value)
                   ELSE IF setting = highlights
                   THEN setBooleanFilterSetting(host.stored, "highlights", value)
                   ELSE [config |-> host.stored, ok |-> FALSE]} :
         LET saved == r.ok /\ saveOk IN
         /\ host' = [host EXCEPT !.stored = IF saved THEN r.config ELSE @]
         /\ cmd' = [count |-> cmd.count + 1, category |-> "filter", cls |-> "Prowl",
                    setting |-> setting, value |-> "", before |-> NoDoc,
                    result |-> [NoResult EXCEPT !.success = saved,
                                                !.kind = IF r.ok THEN "updated" ELSE "invalid"],
                    saved |-> saved]
    /\ direct' = NoDirect
    /\ UNCHANGED <<engineVars, keyIn, keyOut, notifier, sent, doc, storeVars>>

\* handleTheloungeMessage: an inbound event goes to the manager when
\* notifications are enabled
Inbound ==
    /\ host.enabled
    /\ host.hasManager
    /\ BagCardinality(inflight) < MaxPending
    /\ \E e \in ManagerEvents, c \in ManagerClients :
         /\ processMessage(e, c)
         /\ direct' = [active |-> FALSE, called |-> TRUE,
                       verdict |-> shouldNotify(filters, e, c),
                       event |-> e, client |-> c]
    /\ UNCHANGED <<keyIn, keyOut, registryVars, storeVars>>

\* the cleanup timer of the manager
ManagerTick == host.hasManager /\ Tick

NextManager ==
    Enable \/ Disable \/ ConfigFilter \/ Inbound \/ Settle \/ Finish \/ Resume \/ ManagerTick

SpecManager == InitManager /\ [][NextManager]_vars

---------------------------------------------------------------------------
(* Specification of the plugin for several identities: the pluginState map  *)
(* of index.js, the config file of each user, commands and inbound messages *)

\* an identity is a pair <<client, network>>; client.id and client.name
\* stand for each other
Identities == {<<"alice", "n1">>, <<"alice", "n2">>, <<"bob", "n1">>}
Users == {"alice", "bob"}
userOf(id) == id[1]

\* this.configPath: `${client.name}-config.json`
configPath(id) == userOf(id)

\* a stored document with one valid service, notifications off
ProwlServices == [NoServices EXCEPT !["prowl"] = ValidEntry("Prowl", TRUE)]
ProwlDoc == [getDefaultConfig EXCEPT !.f.services = Obj(ProwlServices)]

\* the parts of a loaded document the manager reads
filtersOf(config) ==
    [onlyWhenAway |-> truthy(config.f.filters.f.onlyWhenAway),
     highlights |-> truthy(config.f.filters.f.highlights),
     channels |-> NoChannels]

servicesOf(config) ==
    IF config.f.services.t = "object" THEN config.f.services.f ELSE NoServices

\* config.services && Object.keys(config.services).length > 0
hasServices(config) ==
    \E k \in DOMAIN servicesOf(config) : servicesOf(config)[k].present

NoManager == [present |-> FALSE, config |-> getDefaultConfig, notifiers |-> {}, recent |-> {}]

\* new NotificationManager(config, logger)
newManager(config) ==
    [present |-> TRUE, config |-> config,
     notifiers |-> initializeNotifiers(servicesOf(config), TRUE),
     recent |-> {}]

\* an entry of pluginState; `commanded` is history: the last of the enable
\* and disable commands of this identity was an enable; `pending` counts the
\* sends of this identity that are in flight
NoState ==
    [created |-> FALSE, enabled |-> FALSE, manager |-> NoManager,
     listenersSetup |-> FALSE, commanded |-> FALSE, pending |-> 0]

\* the state getPluginState creates for a key it does not hold yet
createState(file) ==
    LET config == load(file).value
        on == truthy(config.f.enabled) /\ hasServices(config)
    IN  [NoState EXCEPT !.created = TRUE,
                        !.enabled = truthy(config.f.enabled),
                        !.manager = IF on THEN newManager(config) ELSE NoManager,
                        !.listenersSetup = on]

\* getPluginState(client, network): the map after the call
getPluginState(id) ==
    IF pluginState[id].created THEN pluginState
    ELSE [pluginState EXCEPT ![id] = createState(disk[configPath(id)])]

\* the commands of one run are counted in io
HostIdle == [op |-> "none", count |-> 0]

HostFiles == {NoFile, TextOf(ProwlDoc)}

InitHost ==
    /\ filters = DefaultFilters
    /\ notifiers = {}
    /\ EngineInit
    /\ direct = NoDirect
    /\ keyIn = <<NoEvent, NoEvent>>
    /\ keyOut = NoKeys
    /\ RegistryIdle
    /\ disk \in [Users -> HostFiles]
    /\ pluginState = [id \in Identities |-> NoState]
    /\ io = HostIdle
    /\ probe = NoProbe

HostUnchanged == UNCHANGED <<engineVars, direct, keyIn, keyOut, registryVars, probe>>

\* /notify enable: enableNotifications; the result of save is not looked at
HostEnable ==
    /\ io.count < MaxCommands
    /\ \E id \in Identities, storage \in StorageConditions :
         \E ps \in {getPluginState(id)}, config \in {load(disk[configPath(id)]).value} :
         \E saved \in {save([config EXCEPT !.f.enabled = Bool(TRUE)],
                           disk[configPath(id)], storage)} :
             IF ~hasServices(config)
             THEN /\ pluginState' = ps
                  /\ disk' = disk
                  /\ io' = [op |-> "enable", count |-> io.count + 1, id |-> id,
                            saveCalled |-> FALSE, saveRet |-> FALSE,
                            success |-> FALSE]
             ELSE /\ pluginState' = [ps EXCEPT
                         ![id].manager =
                             newManager([config EXCEPT !.f.enabled = Bool(TRUE)]),
                         ![id].listenersSetup = TRUE,
                         ![id].enabled = TRUE,
                         ![id].commanded = TRUE]
                  /\ disk' = [disk EXCEPT ![configPath(id)] = saved.file]
                  /\ io' = [op |-> "enable", count |-> io.count + 1, id |-> id,
                            saveCalled |-> TRUE, saveRet |-> truthy(saved.ret.value),
                            success |-> TRUE]
    /\ HostUnchanged

\* /notify disable: disableNotifications
HostDisable ==
    /\ io.count < MaxCommands
    /\ \E id \in Identities, storage \in StorageConditions :
         \E ps \in {getPluginState(id)}, config \in {load(disk[configPath(id)]).value} :
         \E saved \in {save([config EXCEPT !.f.enabled = Bool(FALSE)],
                           disk[configPath(id)], storage)} :
             /\ pluginState' = [ps EXCEPT ![id].enabled = FALSE,
                                          ![id].commanded = FALSE]
             /\ disk' = [disk EXCEPT ![configPath(id)] = saved.file]
             /\ io' = [op |-> "disable", count |-> io.count + 1, id |-> id,
                       saveCalled |-> TRUE, saveRet |-> truthy(saved.ret.value),
                       success |-> TRUE]
    /\ HostUnchanged

\* /notify config filter highlights <value>: handleConfig of the commands
\* module, handleConfigFilter and setBooleanFilterSetting
HostConfigFilter ==
    /\ io.count < MaxCommands
    /\ \E id \in Identities, value \in BOOLEAN, storage \in StorageConditions :
         \E ps \in {getPluginState(id)}, config \in {load(disk[configPath(id)]).value} :
         \E saved \in {save([config EXCEPT !.f.filters.f.highlights = Bool(value)],
                           disk[configPath(id)], storage)} :
             /\ pluginState' = ps
             /\ disk' = [disk EXCEPT ![configPath(id)] = saved.file]
             /\ io' = [op |-> "filter", count |-> io.count + 1, id |-> id,
                       saveCalled |-> TRUE, saveRet |-> truthy(saved.ret.value),
                       success |-> truthy(saved.ret.value)]
    /\ HostUnchanged

\* /notify status: getStatus loads the document of the identity
HostStatus ==
    /\ io.count < MaxCommands
    /\ \E id \in Identities :
         LET ps == getPluginState(id) IN
         /\ pluginState' = ps
         /\ io' = [op |-> "status", count |-> io.count + 1, id |-> id,
                   saveCalled |-> FALSE, saveRet |-> FALSE,
                   success |-> TRUE]
    /\ UNCHANGED disk
    /\ HostUnchanged

\* the messages a channel pushes, and the client they are pushed for
HostMessages ==
    {e \in Events : e.channel = ChanC /\ e.message = MsgShort
                    /\ e.type \in {"message", "join"}}

\* the wrapped pushMessage of a channel of the identity: handleTheloungeMessage
\* and, behind its guards, processMessage up to its await
HostMessage ==
    /\ \E id \in Identities, msg \in HostMessages :
         LET st == pluginState[id]
             m == st.manager
             passes == /\ st.enabled /\ m.present
                       /\ ~msg.self
                       /\ msg.type \in EventTypes
             dedupKey == getDeduplicationKey(msg)
             sends == /\ passes
                      /\ shouldNotify(filtersOf(m.config), msg, ClientAway)
                      /\ ~isDuplicate(m.recent, dedupKey)
         IN  /\ st.listenersSetup
             /\ sends => st.pending + Cardinality(m.notifiers) <= MaxPending
             /\ pluginState' =
                    IF sends
                    THEN [pluginState EXCEPT
                            ![id].manager.recent = recordKey(m.recent, dedupKey),
                            ![id].pending = @ + Cardinality(m.notifiers)]
                    ELSE pluginState
             /\ io' = [op |-> "message", count |-> io.count, id |-> id,
                       msg |-> msg, called |-> passes, commanded |-> st.commanded]
    /\ UNCHANGED disk
    /\ HostUnchanged

\* a send in flight settles
HostSettle ==
    /\ \E id \in Identities :
         /\ pluginState[id].pending > 0
         /\ pluginState' = [pluginState EXCEPT ![id].pending = @ - 1]
    /\ UNCHANGED <<disk, io>>
    /\ HostUnchanged

\* the cleanup timer of the manager of an identity
HostTick ==
    /\ \E id \in Identities :
         /\ pluginState[id].manager.present
         /\ pluginState' = [pluginState EXCEPT
                ![id].manager.recent = cleanupRecentNotifications(@)]
    /\ UNCHANGED <<disk, io>>
    /\ HostUnchanged

NextHost ==
    HostEnable \/ HostDisable \/ HostConfigFilter \/ HostStatus \/ HostMessage
        \/ HostSettle \/ HostTick

SpecHost == InitHost /\ [][NextHost]_vars

---------------------------------------------------------------------------
(* Specification of the ConfigManager of one user: load and save on every   *)
(* state of the backing file                                                *)

\* values found in a config file, field by field
EnabledVals == {Undefined, Bool(TRUE), Str("true")}
ChannelVals == {Str("notify"), Num(7)}
ServicesVals == {Undefined, Null, Str("prowl"), Arr, Obj(ProwlServices)}
FiltersVals ==
    {Undefined, Num(5),
     Obj([onlyWhenAway |-> Bool(FALSE), highlights |-> Bool(FALSE)]),
     Obj([onlyWhenAway |-> Str("no"), highlights |-> Bool(FALSE)]),
     Obj([onlyWhenAway |-> Bool(FALSE), highlights |-> Num(0)])}
FormatVals ==
    {Undefined, Str("x"),
     Obj([title |-> Str("T"), titleWithChannel |-> Str("TC"), message |-> Str("M"),
          actionMessage |-> Str("A")]),
     Obj([title |-> Num(1), titleWithChannel |-> Str(""), message |-> Str("M"),
          actionMessage |-> Null])}

\* the objects a config file may hold
RawDocs ==
    {Obj([enabled |-> en, channelName |-> ch, services |-> sv, filters |-> fl,
          format |-> fm]) :
        en \in EnabledVals, ch \in ChannelVals, sv \in ServicesVals,
        fl \in FiltersVals, fm \in FormatVals}

\* the states of the backing file
FileStates ==
    {NoFile, Unreadable, Corrupt}
        \cup {TextOf(v) : v \in RawDocs \cup {Null, Num(1), Str("x"), Arr, Obj(<<>>)}}

\* a services object with a field that JSON does not write as it is
OddServices ==
    [NoServices EXCEPT !["prowl"] =
        [ValidEntry("Prowl", TRUE) EXCEPT !.fields[application] = Undefined,
                                          !.fields[priority] = NaN]]

\* the arguments of save besides the document that was just loaded
SaveInputs ==
    {Undefined, Null, Num(1), Arr, Obj(<<>>),
     Obj([enabled |-> Bool(TRUE), services |-> Obj(ProwlServices)]),
     Obj([enabled |-> Str("true"), services |-> Str("prowl"), filters |-> Num(5),
          format |-> Obj([title |-> Num(1)])]),
     Obj([services |-> Obj(OddServices),
          filters |-> Obj([onlyWhenAway |-> Bool(FALSE), highlights |-> Str("no")])])}

\* documents that load returned
LoadedDocs ==
    {load(file).value :
        file \in {NoFile, TextOf(ProwlDoc),
                  TextOf(Obj([enabled |-> Bool(TRUE), services |-> Arr,
                              filters |-> Obj([highlights |-> Bool(FALSE)]),
                              format |-> Obj([title |-> Str("T")])]))}}

StoreUser == "alice"

StoreIo == [op |-> "none", count |-> 0]

InitStore ==
    /\ filters = DefaultFilters
    /\ notifiers = {}
    /\ EngineInit
    /\ direct = NoDirect
    /\ keyIn = <<NoEvent, NoEvent>>
    /\ keyOut = NoKeys
    /\ RegistryIdle
    /\ \E file \in FileStates : disk = [u \in Users |-> IF u = StoreUser THEN file ELSE NoFile]
    /\ pluginState = NoStates
    /\ io = StoreIo
    /\ probe = NoProbe

\* configManager.load(), also of a fresh ConfigManager of the same user
StoreLoad ==
    /\ io.count < MaxStoreOps
    /\ io' = [op |-> "load", count |-> io.count + 1, ret |-> load(disk[StoreUser]),
              afterSave |-> io.op = "save" /\ truthy(io.ret.value),
              saved |-> IF io.op = "save" /\ truthy(io.ret.value)
                        THEN io.config ELSE Undefined]
    /\ UNCHANGED <<engineVars, direct, keyIn, keyOut, registryVars, disk, pluginState,
                   probe>>

\* configManager.save(config) under a condition of the file system
StoreSave ==
    /\ io.count < MaxStoreOps
    /\ \E config \in SaveInputs \cup LoadedDocs
                           \cup (IF io.op = "load" THEN {io.ret.value} ELSE {}),
          storage \in StorageConditions :
         \E r \in {save(config, disk[StoreUser], storage)} :
         /\ disk' = [disk EXCEPT ![StoreUser] = r.file]
         /\ io' = [op |-> "save", count |-> io.count + 1, config |-> config,
                   storage |-> storage, ret |-> r.ret]
    /\ UNCHANGED <<engineVars, direct, keyIn, keyOut, registryVars, pluginState, probe>>

NextStore == StoreLoad \/ StoreSave

SpecStore == InitStore /\ [][NextStore]_vars

---------------------------------------------------------------------------
(* Specification of the two validations of one notifier object: it is       *)
(* constructed from a ServiceConfig, then validate() and                    *)
(* validateWithLogging() are called on it                                   *)

\* notifier.validate() and notifier.validateWithLogging(), with a logger that
\* records the calls of error()
ValidateBoth ==
    /\ notifier.built
    /\ probe = NoProbe
    /\ probe' = [fn |-> "validate",
                 silent |-> validationRun(notifier.cls, notifier.config, FALSE),
                 logging |-> validationRun(notifier.cls, notifier.config, TRUE)]
    /\ UNCHANGED <<engineVars, direct, keyIn, keyOut, registryVars, disk, pluginState, io>>

NextValidate == Construct \/ ValidateBoth

SpecValidate == InitNotifier /\ [][NextValidate]_vars

---------------------------------------------------------------------------
(* Specification of FormatTemplate.process: one call on every template and  *)
(* every variables object of the bounded inputs                             *)

\* the pieces a template is made of: plain text and two placeholders
TemplateChunks ==
    {<<"h", "i">>, placeholder(chars("nick")), placeholder(chars("message"))}

RECURSIVE concat(_)
concat(pieces) == IF pieces = <<>> THEN <<>> ELSE Head(pieces) \o concat(Tail(pieces))

ChunkSeqs == UNION {[1..n -> TemplateChunks] : n \in 0..MaxChunks}

\* a value of the nick variable; { and } are legal in an IRC nick
NickValues ==
    {Undefined, Txt(<<>>), Txt(<<"b", "o", "b">>), Txt(placeholder(chars("message")))}

\* a value of the message variable, which is the text of the inbound event
MessageValues ==
    {Undefined, Txt(<<>>), Txt(<<"y", "o">>), Txt(<<"$", "&">>), Txt(<<"$", "$">>)}

\* the variables objects: each of nick and message is absent or has one of
\* its values; nick is inserted first, as getVariables does
VariableObjects ==
    {concat(<<n, m>>) :
        n \in {<<>>} \cup {<<[key |-> chars("nick"), value |-> v]>> : v \in NickValues},
        m \in {<<>>} \cup {<<[key |-> chars("message"), value |-> v]>> : v \in MessageValues}}

\* variables[key], undefined when the object has no such key
valueOf(variables, key) ==
    IF \E i \in DOMAIN variables : variables[i].key = key
    THEN (CHOOSE e \in {variables[i] : i \in DOMAIN variables} : e.key = key).value
    ELSE Undefined

InitTemplate ==
    /\ filters = DefaultFilters
    /\ notifiers = {}
    /\ EngineInit
    /\ direct = NoDirect
    /\ keyIn = <<NoEvent, NoEvent>>
    /\ keyOut = NoKeys
    /\ RegistryIdle
    /\ disk = NoDisk
    /\ pluginState = NoStates
    /\ io = NoIo
    /\ \E variables \in VariableObjects :
         \/ \E pieces \in ChunkSeqs :
              probe = [fn |-> "input", pieces |-> pieces,
                       template |-> Txt(concat(pieces)), variables |-> variables]
         \/ \E template \in {Undefined, Null, Num(7)} :
              probe = [fn |-> "input", pieces |-> <<>>,
                       template |-> template, variables |-> variables]

\* FormatTemplate.process(template, variables)
Process ==
    /\ probe.fn = "input"
    /\ probe' = [fn |-> "process", pieces |-> probe.pieces, template |-> probe.template,
                 variables |-> probe.variables,
                 out |-> process(probe.template, probe.variables)]
    /\ UNCHANGED <<engineVars, direct, keyIn, keyOut, registryVars, disk, pluginState, io>>

NextTemplate == Process

SpecTemplate == InitTemplate /\ [][NextTemplate]_vars

---------------------------------------------------------------------------
(* Specification of formatNotification: one call on every format            *)
(* configuration and every event of the bounded inputs                      *)

\* a nick made of legal nick characters that reads as a placeholder, a
\* message that holds a replacement pattern
NickText == placeholder(chars("text"))
MsgDollar == <<"$", "&">>

FormatEvents ==
    [type: {"message", "action", "notice"}, network: Networks,
     channel: {ChanC, ChanPM, <<>>}, nick: Nicks \cup {NickText},
     message: {MsgShort, MsgDollar}, timestamp: {1, 2}]

\* this.config.format: absent, the defaults, and objects in which the two
\* optional templates are missing, empty or custom
FormatObjects ==
    {Undefined} \cup
    {Obj([title |-> t, titleWithChannel |-> tc, message |-> m, actionMessage |-> am]) :
        t \in {Str("{{network}}"), Txt(<<"T">>)},
        tc \in {Str("{{network}} - {{channel}}"), Undefined, Txt(<<>>),
                Txt(placeholder(chars("channel")))},
        m \in {Str("<{{nick}}> {{message}}")},
        am \in {Str("* {{nick}} {{message}}"), Undefined, Txt(<<>>)}}

InitFormat ==
    /\ filters = DefaultFilters
    /\ notifiers = {}
    /\ EngineInit
    /\ direct = NoDirect
    /\ keyIn = <<NoEvent, NoEvent>>
    /\ keyOut = NoKeys
    /\ RegistryIdle
    /\ disk = NoDisk
    /\ pluginState = NoStates
    /\ io = NoIo
    /\ \E format \in FormatObjects : \E messageData \in FormatEvents :
         probe = [fn |-> "input", format |-> format, messageData |-> messageData]

\* manager.formatNotification(messageData)
Format ==
    /\ probe.fn = "input"
    /\ probe' = [fn |-> "formatNotification", format |-> probe.format,
                 messageData |-> probe.messageData,
                 out |-> formatNotification(probe.format, probe.messageData)]
    /\ UNCHANGED <<engineVars, direct, keyIn, keyOut, registryVars, disk, pluginState, io>>

NextFormat == Format

SpecFormat == InitFormat /\ [][NextFormat]_vars

---------------------------------------------------------------------------
(* Specification of the registerVariables setter: a raw field map is        *)
(* assigned, and the map read back is assigned again                        *)

\* the five attributes of a descriptor
Attributes == {"default", "example", "required", "validate", "validationError"}

\* the values a provider gives each attribute when it writes it
GivenValues(attribute) ==
    CASE attribute = "default" -> {Str("d")}
      [] attribute = "example" -> {Str("e")}
      [] attribute = "required" -> {Bool(TRUE), Bool(FALSE)}
      [] attribute = "validate" -> {Fn("given")}
      [] attribute = "validationError" -> {Str("given")}

\* the partial descriptors: any of the attributes may be left out
RawDescriptors ==
    UNION {{d \in [S -> UNION {GivenValues(a) : a \in S}] :
              \A a \in S : d[a] \in GivenValues(a)} : S \in SUBSET Attributes}

\* the raw field maps of a provider with at most two fields
RawFieldMaps ==
    UNION {[K -> RawDescriptors] : K \in SUBSET {apiKey, priority}}

InitSetter ==
    /\ filters = DefaultFilters
    /\ notifiers = {}
    /\ EngineInit
    /\ direct = NoDirect
    /\ keyIn = <<NoEvent, NoEvent>>
    /\ keyOut = NoKeys
    /\ RegistryIdle
    /\ disk = NoDisk
    /\ pluginState = NoStates
    /\ io = NoIo
    /\ \E raw \in RawFieldMaps :
         probe = [fn |-> "registerVariables", count |-> 0, raw |-> raw,
                  before |-> raw, current |-> raw]

\* this.registerVariables = value, value being the raw map the first time
\* and this.registerVariables afterwards
AssignRegisterVariables ==
    /\ probe.fn = "registerVariables"
    /\ probe.count < MaxAssignments
    /\ probe' = [probe EXCEPT !.count = @ + 1,
                              !.before = probe.current,
                              !.current = setRegisterVariables(probe.current)]
    /\ UNCHANGED <<engineVars, direct, keyIn, keyOut, registryVars, disk, pluginState, io>>

NextSetter == AssignRegisterVariables

SpecSetter == InitSetter /\ [][NextSetter]_vars

---------------------------------------------------------------------------
(* Specification of the version check: checkForUpdate on every pair of      *)
(* version strings of the bounded inputs and every outcome of the fetch     *)

\* the numbers a part of a version takes: one is written with two digits
PartValues == {0, 2, 10}

\* the text of a number
digitsOfNumber(k) == IF k < 10 THEN <<Digits[k + 1]>> ELSE <<Digits[(k \div 10) + 1], Digits[(k % 10) + 1]>>

\* the text of a version: the parts joined by dots, after an optional v
RECURSIVE joinParts(_)
joinParts(parts) ==
    IF Len(parts) = 1 THEN digitsOfNumber(parts[1])
    ELSE digitsOfNumber(Head(parts)) \o <<".">> \o joinParts(Tail(parts))

versionText(prefixed, parts) == (IF prefixed THEN <<"v">> ELSE <<>>) \o joinParts(parts)

\* the versions: one to MaxParts parts, with or without the v
Versions ==
    {[prefixed |-> p, parts |-> parts] :
        p \in BOOLEAN, parts \in UNION {[1..n -> PartValues] : n \in 1..MaxParts}}

\* the outcomes of fetchRemotePackageJson
FetchOutcomes == {"package", "noVersion", "rejected"}

InitVersion ==
    /\ filters = DefaultFilters
    /\ notifiers = {}
    /\ EngineInit
    /\ direct = NoDirect
    /\ keyIn = <<NoEvent, NoEvent>>
    /\ keyOut = NoKeys
    /\ RegistryIdle
    /\ disk = NoDisk
    /\ pluginState = NoStates
    /\ io = NoIo
    /\ \E a \in Versions, b \in Versions :
         probe = [fn |-> "input", a |-> a, b |-> b]

\* checkForUpdate(currentVersion, repoUrl) on the text of the two versions
CheckForUpdate ==
    /\ probe.fn = "input"
    /\ \E outcome \in FetchOutcomes :
         LET latest == versionText(probe.b.prefixed, probe.b.parts) IN
         probe' = [fn |-> "checkForUpdate", a |-> probe.a, b |-> probe.b,
                   outcome |-> outcome,
                   out |-> checkForUpdate(versionText(probe.a.prefixed, probe.a.parts),
                                          [outcome |-> IF outcome = "rejected"
                                                       THEN "rejected" ELSE "package",
                                           hasVersion |-> outcome = "package",
                                           version |-> latest])]
    /\ UNCHANGED <<engineVars, direct, keyIn, keyOut, registryVars, disk, pluginState, io>>

NextVersion == CheckForUpdate

SpecVersion == InitVersion /\ [][NextVersion]_vars

---------------------------------------------------------------------------
(* Specification of the engine with a record of the failed notifications:   *)
(* the keys of the calls of the current cycle that returned with every send *)
(* rejected                                                                 *)

\* every send of the call was invoked on some provider and none resolved
allSendsFailed(call) ==
    /\ call.sentVia = <<>>
    /\ \E n \in Providers : call.sends[n] = "rejected"
    /\ promiseAll(promisesOf(call)) = "fulfilled"

InitRetry ==
    /\ filters = DefaultFilters
    /\ notifiers \in SUBSET Providers
    /\ EngineInit
    /\ direct = NoDirect
    /\ keyIn = <<NoEvent, NoEvent>>
    /\ keyOut = NoKeys
    /\ RegistryIdle
    /\ disk = NoDisk
    /\ pluginState = NoStates
    /\ io = NoIo
    /\ probe = [fn |-> "results", failed |-> {}]

\* the await of a suspended call is over; a result with an empty services
\* list after failed sends is noted
FinishNoting ==
    /\ \E call \in Suspended :
         /\ Return(call)
         /\ probe' = IF call.cur /\ allSendsFailed(call)
                     THEN [probe EXCEPT !.failed = @ \cup {call.key}]
                     ELSE probe
    /\ UNCHANGED <<direct, keyIn, keyOut, registryVars, disk, pluginState, io>>

\* the cleanup tick: a new cycle starts
TickNoting ==
    /\ Cleanup
    /\ probe' = [probe EXCEPT !.failed = {}]
    /\ UNCHANGED <<direct, keyIn, keyOut, registryVars, disk, pluginState, io>>

NextRetry == Dispatch \/ Settle \/ FinishNoting \/ Resume \/ TickNoting

SpecRetry == InitRetry /\ [][NextRetry]_vars

---------------------------------------------------------------------------
(* Specification of the plugin of one identity with the per-service         *)
(* commands and a record of the keys notified since the last cleanup tick   *)

\* getNotifierMetadata(serviceName): the class of the module found under the
\* name in lower case, "none" when require fails
getNotifierMetadata(serviceName) ==
    IF lowerKey(serviceName) \in NotifierFiles
    THEN classOfFile(lowerKey(serviceName))
    ELSE "none"

\* the names typed after /notify enable, /notify disable and /notify test
ServiceArgs == {"Prowl", "prowl", "webhook"}

\* the manager of the state is replaced by new NotificationManager(config):
\* an empty dedup set and the notifiers of the document; the calls of the
\* manager it replaces stay suspended
newManagerFrom(config) ==
    /\ notifiers' = initializeNotifiers(config.services, host.caseSensitive)
    /\ filters' = config.filters
    /\ recentNotifications' = {}
    /\ cycle' = <<>>
    /\ inflight' = endCycle(inflight)
    /\ doc' = config
    /\ UNCHANGED returned

\* /notify enable <service> and /notify disable <service>: handleEnable and
\* handleDisable with a service name out of `args`
handleSwitch(limit, args) ==
    /\ cmd.count < limit
    /\ returned = NoReturn
    /\ \E arg \in args, en \in BOOLEAN, saveOk \in BOOLEAN :
         LET serviceName == lowerKey(arg)
             config == host.stored
             entry == config.services[serviceName]
             found == entry.present
             cls == getNotifierMetadata(serviceName)
             refused == en /\ (cls = "none" \/ ~validate(cls, entry))
             done == found /\ ~refused /\ saveOk
             newConfig == [config EXCEPT !.services[serviceName].enabled = en]
         IN /\ cmd' = [NoCmd EXCEPT !.count = cmd.count + 1,
                                    !.category = IF en THEN "enable service"
                                                 ELSE "disable service",
                                    !.cls = IF cls = "none" THEN "Prowl" ELSE cls,
                                    !.result = [NoResult EXCEPT
                                        !.success = done,
                                        !.kind = IF ~found THEN "not configured"
                                                 ELSE IF refused THEN "refused"
                                                 ELSE IF saveOk THEN "switched"
                                                 ELSE "save failed"],
                                    !.saved = done]
            /\ host' = [host EXCEPT !.stored = IF done THEN newConfig ELSE @]
            /\ IF done /\ host.enabled /\ host.hasManager
               THEN newManagerFrom(newConfig)
               ELSE UNCHANGED <<engineVars, doc>>
    /\ direct' = NoDirect
    /\ UNCHANGED <<keyIn, keyOut, notifier, sent, storeVars>>

ServiceSwitch == handleSwitch(MaxCommands, ServiceArgs)

InitWindow ==
    /\ filters = DefaultFilters
    /\ notifiers = {}
    /\ EngineInit
    /\ direct = NoDirect
    /\ keyIn = <<NoEvent, NoEvent>>
    /\ keyOut = NoKeys
    /\ disk = NoDisk
    /\ pluginState = NoStates
    /\ io = NoIo
    /\ probe = [fn |-> "window", notified |-> {}]
    /\ notifier = NoNotifier
    /\ sent = NotSent
    /\ doc = NoDoc
    /\ cmd = NoCmd
    /\ \E d \in ManagerDocs :
         host = [enabled |-> FALSE, hasManager |-> FALSE, caseSensitive |-> TRUE,
                 stored |-> d]

\* handleTheloungeMessage: an inbound event goes to the manager; the key of
\* a call that invokes the sends is noted
WindowInbound ==
    /\ host.enabled
    /\ host.hasManager
    /\ BagCardinality(inflight) < MaxPending
    /\ \E e \in ManagerEvents, c \in ManagerClients :
         /\ processMessage(e, c)
         /\ direct' = [active |-> FALSE, called |-> TRUE,
                       verdict |-> shouldNotify(filters, e, c),
                       event |-> e, client |-> c]
         /\ probe' = IF /\ shouldNotify(filters, e, c)
                        /\ ~isDuplicate(recentNotifications, getDeduplicationKey(e))
                     THEN [probe EXCEPT !.notified = @ \cup {getDeduplicationKey(e)}]
                     ELSE probe
    /\ UNCHANGED <<keyIn, keyOut, registryVars, disk, pluginState, io>>

\* the cleanup timer of the manager: the dedup window ends
WindowTick ==
    /\ host.hasManager
    /\ Cleanup
    /\ probe' = [probe EXCEPT !.notified = {}]
    /\ UNCHANGED <<direct, keyIn, keyOut, registryVars, disk, pluginState, io>>

NextWindow ==
    \/ Enable \/ Disable \/ ServiceSwitch \/ WindowInbound
    \/ Settle \/ Finish \/ Resume \/ WindowTick

SpecWindow == InitWindow /\ [][NextWindow]_vars

---------------------------------------------------------------------------
(* Specification of the per-service commands of one identity: the config    *)
(* command writes the entry of a service, enable builds the manager, and    *)
(* enable, disable and test are given the name of a service                 *)

\* the service names typed after config, enable, disable and test: the
\* names of the README in lower case, and the name of the class
TypedServices == {"prowl", "Prowl", "ntfy"}

\* /notify config <service> <setting> <value> with a service name out of
\* TypedServices: handleConfig of commands.js lower-cases the category and
\* the setting, finds the notifier class, and saves after a successful
\* notifier.handleConfig
ServiceConfigure ==
    /\ cmd.count < MaxServiceCommands
    /\ returned = NoReturn
    /\ \E arg \in TypedServices, value \in ValueStrings, saveOk \in BOOLEAN :
         LET category == lowerKey(arg)
             cls == getNotifierMetadata(category)
         IN
         /\ cls # "none"
         /\ \E name \in SettingNames(cls) :
              \E r \in {handleConfig(cls, host.stored.services, toLowerCase(name), value)} :
              LET config == host.stored
                  after == [config EXCEPT !.services = r.services]
                  saved == r.result.success /\ saveOk
              IN  /\ host' = [host EXCEPT !.stored = IF saved THEN after ELSE @]
                  /\ cmd' = [count |-> cmd.count + 1, category |-> "service",
                             cls |-> cls, setting |-> toLowerCase(name),
                             value |-> value, before |-> config,
                             result |-> r.result, saved |-> saved]
    /\ direct' = NoDirect
    /\ UNCHANGED <<engineVars, keyIn, keyOut, notifier, sent, doc, storeVars>>

\* /notify test <service>: handleTest asks the manager of the state for
\* sendTestNotification(serviceName) with the name in lower case; the
\* manager looks the name up in this.notifiers, whose keys are the names of
\* the notifier objects, and the send of a notifier found may fail
ServiceTest ==
    /\ cmd.count < MaxServiceCommands
    /\ returned = NoReturn
    /\ \E arg \in TypedServices, sendOk \in BOOLEAN :
         LET serviceName == lowerKey(arg)
             found == serviceName \in notifiers
         IN  cmd' = [NoCmd EXCEPT
                       !.count = cmd.count + 1,
                       !.category = "test service",
                       !.cls = getNotifierMetadata(serviceName),
                       !.before = host.stored,
                       !.result = [NoResult EXCEPT
                           !.success = host.enabled /\ host.hasManager /\ found /\ sendOk,
                           !.kind = IF ~host.enabled THEN "not enabled"
                                    ELSE IF ~host.hasManager THEN "no manager"
                                    ELSE IF ~found THEN "not found"
                                    ELSE IF sendOk THEN "test sent"
                                    ELSE "send failed"]]
    /\ direct' = NoDirect
    /\ UNCHANGED <<engineVars, keyIn, keyOut, notifier, sent, doc, host, storeVars>>

ServiceEnableAll == enableNotifications(MaxServiceCommands)

ServiceEnableDisable == handleSwitch(MaxServiceCommands, TypedServices)

InitService ==
    /\ filters = DefaultFilters
    /\ notifiers = {}
    /\ EngineInit
    /\ direct = NoDirect
    /\ keyIn = <<NoEvent, NoEvent>>
    /\ keyOut = NoKeys
    /\ StoreIdle
    /\ notifier = NoNotifier
    /\ sent = NotSent
    /\ doc = NoDoc
    /\ cmd = NoCmd
    /\ \E cs \in BOOLEAN : host = [NoHost EXCEPT !.caseSensitive = cs]

NextService ==
    ServiceConfigure \/ ServiceEnableAll \/ ServiceEnableDisable \/ ServiceTest

SpecService == InitService /\ [][NextService]_vars

---------------------------------------------------------------------------
(* Specification of the engine with a record of the filtered events: the    *)
(* keys of the calls of the current cycle that shouldNotify turned away,    *)
(* and the keys notified after such a call                                  *)

InitFiltered ==
    /\ filters = DefaultFilters
    /\ notifiers \in SUBSET Providers
    /\ EngineInit
    /\ direct = NoDirect
    /\ keyIn = <<NoEvent, NoEvent>>
    /\ keyOut = NoKeys
    /\ RegistryIdle
    /\ disk = NoDisk
    /\ pluginState = NoStates
    /\ io = NoIo
    /\ probe = [fn |-> "filtered", rejected |-> {}, later |-> {}]

\* the host hands an event to processMessage; the key of an event that is
\* filtered out is noted, and so is the key of an event that invokes the
\* sends after an event with its key was filtered out
DispatchNoting ==
    /\ \E e \in DispatchEvents, c \in Clients :
         LET dedupKey == getDeduplicationKey(e) IN
         /\ processMessage(e, c)
         /\ probe' =
              IF ~shouldNotify(filters, e, c)
              THEN [probe EXCEPT !.rejected = @ \cup {dedupKey}]
              ELSE IF dedupKey \in probe.rejected /\ returned' = NoReturn
              THEN [probe EXCEPT !.later = @ \cup {dedupKey}]
              ELSE probe
    /\ UNCHANGED <<direct, keyIn, keyOut, registryVars, disk, pluginState, io>>

\* the cleanup tick: a new cycle starts
TickFiltered ==
    /\ Cleanup
    /\ probe' = [probe EXCEPT !.rejected = {}, !.later = {}]
    /\ UNCHANGED <<direct, keyIn, keyOut, registryVars, disk, pluginState, io>>

NextFiltered == DispatchNoting \/ Settle \/ Finish \/ Resume \/ TickFiltered

SpecFiltered == InitFiltered /\ [][NextFiltered]_vars

---------------------------------------------------------------------------
(* Specification of message monitoring for one identity: the channels of    *)
(* its network and their pushMessage, the wrappers setupMessageMonitoring   *)
(* installs, the commands that reach it, channels added by the host         *)

\* the identity whose network is followed, and the channel objects of the
\* host
MonitorId == <<"alice", "n1">>
ChannelObjects == {"chanA", "chanB"}

\* a channel object: `layers` is the number of wrappers around its
\* pushMessage, `wrapped` is channel._externalNotifyWrapped; `late` is
\* history: the channel was handed to network.addChannel
NoChannel == [present |-> FALSE, wrapped |-> FALSE, layers |-> 0, late |-> FALSE]

\* a wrapChannelPushMessage that does not look at the mark of the channel
wrapChannelPushMessage_NoMark(channel) ==
    [channel EXCEPT !.layers = @ + 1, !.wrapped = TRUE]

\* wrapChannelPushMessage(channel, state)
wrapChannelPushMessage(channel) ==
    IF channel.wrapped THEN channel
    ELSE [channel EXCEPT !.layers = @ + 1, !.wrapped = TRUE]

\* the wrappers around network.addChannel, outermost first: each one calls
\* the function it replaced and then wrapChannelPushMessage
RECURSIVE wrapTimes(_, _)
wrapTimes(channel, n) ==
    IF n = 0 THEN channel ELSE wrapChannelPushMessage(wrapTimes(channel, n - 1))

\* network.addChannel(channel) as it stands after `network.addChannel` was
\* replaced network.addChannel times: the host's addChannel, then the wraps
addChannel(network, c) ==
    [network EXCEPT
        !.channels[c] = wrapTimes([@ EXCEPT !.present = TRUE, !.late = TRUE],
                                  network.addChannel),
        !.adds = @ + 1]

\* setupMessageMonitoring(state): the network after the call
setupMessageMonitoring(listenersSetup, network) ==
    IF listenersSetup THEN network
    ELSE [network EXCEPT
            !.channels = [c \in DOMAIN @ |->
                            IF @[c].present THEN wrapChannelPushMessage(@[c]) ELSE @[c]],
            !.addChannel = @ + 1]

\* getPluginState(client, network) with the monitoring it sets up for a
\* state it creates from a document that is enabled and has services
getMonitoredState(id, network) ==
    LET ps == getPluginState(id) IN
    [states |-> ps,
     network |-> IF ~pluginState[id].created /\ ps[id].listenersSetup
                 THEN setupMessageMonitoring(FALSE, network)
                 ELSE network]

\* channel.pushMessage(client, msg, increasesUnread) behind n wrappers: each
\* wrapper calls the function it replaced, then handleTheloungeMessage, and
\* returns the result of the function it replaced
RECURSIVE pushMessage(_)
pushMessage(n) ==
    IF n = 0 THEN [original |-> 1, handled |-> 0, result |-> "host result"]
    ELSE [pushMessage(n - 1) EXCEPT !.handled = @ + 1]

\* handleTheloungeMessage(state, channel, msg) gets to processMessage
handleTheloungeMessage(st, msg) ==
    /\ st.enabled
    /\ st.manager.present
    /\ ~msg.self
    /\ msg.type \in EventTypes

\* the documents found on disk when the process starts: none, one with a
\* valid service and notifications off, the same with notifications on
MonitorFiles ==
    {NoFile, TextOf(ProwlDoc), TextOf([ProwlDoc EXCEPT !.f.enabled = Bool(TRUE)])}

InitMonitor ==
    /\ filters = DefaultFilters
    /\ notifiers = {}
    /\ EngineInit
    /\ direct = NoDirect
    /\ keyIn = <<NoEvent, NoEvent>>
    /\ keyOut = NoKeys
    /\ notifier = NoNotifier
    /\ sent = NotSent
    /\ doc = NoDoc
    /\ cmd = NoCmd
    /\ host = [network |->
                 [channels |-> [c \in ChannelObjects |->
                                  [NoChannel EXCEPT !.present = (c = "chanA")]],
                  addChannel |-> 0, adds |-> 0]]
    /\ disk \in [Users -> MonitorFiles]
    /\ pluginState = [id \in Identities |-> NoState]
    /\ io = HostIdle
    /\ probe = NoProbe

MonitorUnchanged ==
    UNCHANGED <<engineVars, direct, keyIn, keyOut, notifier, sent, doc, cmd, probe>>

\* /notify enable: enableNotifications, with setupMessageMonitoring
MonitorEnable ==
    /\ io.count < MaxCommands
    /\ \E storage \in StorageConditions :
         \E g \in {getMonitoredState(MonitorId, host.network)},
            config \in {load(disk[configPath(MonitorId)]).value} :
         \E saved \in {save([config EXCEPT !.f.enabled = Bool(TRUE)],
                           disk[configPath(MonitorId)], storage)} :
             IF ~hasServices(config)
             THEN /\ pluginState' = g.states
                  /\ host' = [host EXCEPT !.network = g.network]
                  /\ disk' = disk
                  /\ io' = [op |-> "enable", count |-> io.count + 1,
                            id |-> MonitorId, success |-> FALSE]
             ELSE /\ pluginState' = [g.states EXCEPT
                         ![MonitorId].manager =
                             newManager([config EXCEPT !.f.enabled = Bool(TRUE)]),
                         ![MonitorId].listenersSetup = TRUE,
                         ![MonitorId].enabled = TRUE,
                         ![MonitorId].commanded = TRUE]
                  /\ host' = [host EXCEPT !.network =
                         setupMessageMonitoring(g.states[MonitorId].listenersSetup,
                                                g.network)]
                  /\ disk' = [disk EXCEPT ![configPath(MonitorId)] = saved.file]
                  /\ io' = [op |-> "enable", count |-> io.count + 1,
                            id |-> MonitorId, success |-> TRUE]
    /\ MonitorUnchanged

\* /notify disable: disableNotifications
MonitorDisable ==
    /\ io.count < MaxCommands
    /\ \E storage \in StorageConditions :
         \E g \in {getMonitoredState(MonitorId, host.network)},
            config \in {load(disk[configPath(MonitorId)]).value} :
         \E saved \in {save([config EXCEPT !.f.enabled = Bool(FALSE)],
                           disk[configPath(MonitorId)], storage)} :
             /\ pluginState' = [g.states EXCEPT ![MonitorId].enabled = FALSE,
                                                ![MonitorId].commanded = FALSE]
             /\ host' = [host EXCEPT !.network = g.network]
             /\ disk' = [disk EXCEPT ![configPath(MonitorId)] = saved.file]
             /\ io' = [op |-> "disable", count |-> io.count + 1,
                       id |-> MonitorId, success |-> TRUE]
    /\ MonitorUnchanged

\* /notify enable <service> and /notify disable <service> on the service of
\* the stored document: handleEnable and handleDisable ask for the plugin
\* state, save the switched entry, and replace the manager of an enabled
\* state
MonitorSwitch ==
    /\ io.count < MaxCommands
    /\ \E en \in BOOLEAN, storage \in StorageConditions :
         \E g \in {getMonitoredState(MonitorId, host.network)},
            config \in {load(disk[configPath(MonitorId)]).value} :
         LET found == /\ "prowl" \in DOMAIN servicesOf(config)
                      /\ servicesOf(config)["prowl"].present
             newConfig ==
                 IF found
                 THEN [config EXCEPT !.f.services.f["prowl"].enabled = en]
                 ELSE config
             saved == save(newConfig, disk[configPath(MonitorId)], storage)
             done == found /\ truthy(saved.ret.value)
             st == g.states[MonitorId]
         IN  /\ pluginState' =
                    IF done /\ st.enabled /\ st.manager.present
                    THEN [g.states EXCEPT ![MonitorId].manager = newManager(newConfig)]
                    ELSE g.states
             /\ host' = [host EXCEPT !.network = g.network]
             /\ disk' = IF found
                        THEN [disk EXCEPT ![configPath(MonitorId)] = saved.file]
                        ELSE disk
             /\ io' = [op |-> "switch", count |-> io.count + 1,
                       id |-> MonitorId, success |-> done]
    /\ MonitorUnchanged

\* the host adds a channel object to the network: network.addChannel(channel)
MonitorAddChannel ==
    /\ host.network.adds < MaxAdds
    /\ \E c \in ChannelObjects :
         /\ host' = [host EXCEPT !.network = addChannel(@, c)]
         /\ io' = [op |-> "add", count |-> io.count, id |-> MonitorId, channel |-> c]
    /\ UNCHANGED <<disk, pluginState>>
    /\ MonitorUnchanged

\* the host pushes a message to a channel of the network: pushMessage of the
\* channel with the wrappers it has, and processMessage up to its await for
\* a message that gets to the manager
MonitorPush ==
    /\ \E c \in ChannelObjects, msg \in HostMessages :
         LET channel == host.network.channels[c]
             st == pluginState[MonitorId]
             m == st.manager
             call == pushMessage(channel.layers)
             dispatched == IF handleTheloungeMessage(st, msg) THEN call.handled ELSE 0
             dedupKey == getDeduplicationKey(msg)
             sends == /\ dispatched > 0
                      /\ shouldNotify(filtersOf(m.config), msg, ClientAway)
                      /\ ~isDuplicate(m.recent, dedupKey)
         IN  /\ channel.present
             /\ sends => st.pending + Cardinality(m.notifiers) <= MaxPending
             /\ pluginState' =
                    IF sends
                    THEN [pluginState EXCEPT
                            ![MonitorId].manager.recent = recordKey(m.recent, dedupKey),
                            ![MonitorId].pending = @ + Cardinality(m.notifiers)]
                    ELSE pluginState
             /\ io' = [op |-> "push", count |-> io.count, id |-> MonitorId,
                       channel |-> c, msg |-> msg, original |-> call.original,
                       handled |-> call.handled, result |-> call.result,
                       dispatched |-> dispatched, late |-> channel.late]
    /\ UNCHANGED <<disk, host>>
    /\ MonitorUnchanged

NextMonitor ==
    \/ MonitorEnable \/ MonitorDisable \/ MonitorSwitch
    \/ MonitorAddChannel \/ MonitorPush \/ HostSettle \/ HostTick

SpecMonitor == InitMonitor /\ [][NextMonitor]_vars

---------------------------------------------------------------------------
(* Specification of getDeduplicationKey on pairs of events whose network,   *)
(* channel, nick and message may hold the character that joins the key      *)

TupleNetworks == {<<"n">>, <<"n", "-", "x">>}
TupleChannels == {ChanC, ChanC \o <<"-", "b">>, <<"x", "-", "#", "c">>}
TupleNicks == {<<"b">>, <<"b", "-", "b">>}
TupleMessages == {MsgShort, <<"b", "-", "h", "i">>, MsgLongX, MsgLongY}

TupleEvents ==
    [type: {"message"}, network: TupleNetworks, channel: TupleChannels,
     nick: TupleNicks, message: TupleMessages, timestamp: {1},
     highlight: {TRUE}, self: {FALSE}]

InitKeyTuple ==
    /\ filters = DefaultFilters
    /\ notifiers = {}
    /\ EngineInit
    /\ direct = NoDirect
    /\ keyIn \in TupleEvents \X TupleEvents
    /\ keyOut = NoKeys
    /\ StoreIdle
    /\ RegistryIdle

SpecKeyTuple == InitKeyTuple /\ [][ComputeKeys]_vars

---------------------------------------------------------------------------
(* Specification of the substitution of values into a template: process of  *)
(* FormatTemplate and processTemplate of the webhook notifier on every      *)
(* template of the bounded inputs, with text values that may read as a      *)
(* placeholder or hold a replacement pattern, in both orders of insertion   *)

\* the nick and the text of an inbound event
SubstNicks == {<<"b", "o", "b">>, placeholder(chars("message"))}
SubstMessages == {<<"y", "o">>, placeholder(chars("nick")), <<"$", "&">>}

\* the variables objects with nick inserted first
SubstObjects ==
    {<<[key |-> chars("nick"), value |-> Txt(n)],
       [key |-> chars("message"), value |-> Txt(m)]>> :
        n \in SubstNicks, m \in SubstMessages}

\* the same object with its properties inserted in the other order
otherOrder(variables) == <<variables[2], variables[1]>>

InitSubst ==
    /\ filters = DefaultFilters
    /\ notifiers = {}
    /\ EngineInit
    /\ direct = NoDirect
    /\ keyIn = <<NoEvent, NoEvent>>
    /\ keyOut = NoKeys
    /\ RegistryIdle
    /\ disk = NoDisk
    /\ pluginState = NoStates
    /\ io = NoIo
    /\ \E variables \in SubstObjects, pieces \in ChunkSeqs :
         probe = [fn |-> "input", pieces |-> pieces,
                  template |-> Txt(concat(pieces)), variables |-> variables]

\* FormatTemplate.process(template, variables) on the object and on the
\* object with the other order of insertion, and
\* notifier.processTemplate(template, variables)
Substitute ==
    /\ probe.fn = "input"
    /\ probe' = [fn |-> "substitute", pieces |-> probe.pieces,
                 template |-> probe.template, variables |-> probe.variables,
                 out |-> process(probe.template, probe.variables),
                 swapped |-> process(probe.template, otherOrder(probe.variables)),
                 hook |-> processTemplate(charsOf(probe.template), probe.variables)]
    /\ UNCHANGED <<engineVars, direct, keyIn, keyOut, registryVars, disk, pluginState, io>>

SpecSubst == InitSubst /\ [][Substitute]_vars

---------------------------------------------------------------------------
(* Claims about deduplication (specification Spec) *)

Sent(i) == cycle[i].outcome = "sent"

\* C1, as stated: whenever processMessage is called twice with the same
\* passing event and no cleanup tick between the calls, exactly one of the
\* two calls gets a non-null result.
C1_AnyTwoCalls ==
    \A i, j \in DOMAIN cycle :
        (i < j /\ cycle[i].event = cycle[j].event) => (Sent(i) # Sent(j))

\* C1, amended: a call that passes shouldNotify gets past the dedup check and
\* invokes send once on every active notifier exactly when no earlier call
\* since the last tick carried its dedup key; otherwise it returns null and
\* invokes no send.  So of two calls with the same event, the first of which
\* finds the key unrecorded, exactly the first is notified.
C1_FirstOfKeyNotifies ==
    \A j \in DOMAIN cycle :
        IF \A i \in 1..(j - 1) : cycle[i].key # cycle[j].key
        THEN Sent(j) /\ cycle[j].invoked = notifiers
        ELSE ~Sent(j) /\ cycle[j].invoked = {}

\* the same event was handed in twice in one cycle: notified, then suppressed
C1_Witness ==
    /\ notifiers = Providers
    /\ \E i, j \in DOMAIN cycle :
         i < j /\ cycle[i].event = cycle[j].event /\ Sent(i) /\ ~Sent(j)

\* C4: within one cycle at most one call gets past the dedup check for a
\* given key, also while the call that recorded it is still suspended on its
\* sends: no two suspended calls of the current cycle carry the same key.
C4_OnePassPerKey ==
    /\ \A i, j \in DOMAIN cycle :
         (i # j /\ cycle[i].key = cycle[j].key) => ~(Sent(i) /\ Sent(j))
    /\ \A c \in Suspended :
         c.cur => /\ CopiesIn(c, inflight) = 1
                  /\ \A d \in Suspended : (d.cur /\ d.key = c.key) => d = c

\* a second call with the key arrived and was turned away while the sends of
\* the first were still pending
C4_Witness ==
    \E c \in Suspended :
        /\ c.cur
        /\ \E n \in Providers : c.sends[n] = "pending"
        /\ \E j \in DOMAIN cycle : cycle[j].key = c.key /\ ~Sent(j)

\* C9: the dedup set holds exactly the keys recorded since the last cleanup
\* tick (a recorded key stays until the tick, no key outlives a tick), and
\* the first passing call after a tick is notified whatever was recorded
\* before the tick.
C9_ClearedInBulk ==
    /\ recentNotifications = {cycle[i].key : i \in {j \in DOMAIN cycle : Sent(j)}}
    /\ cycle # <<>> => Sent(1)

\* a key notified before a tick is notified again after it, while the earlier
\* call is still suspended
C9_Witness ==
    \E c, d \in Suspended : c.key = d.key /\ c.cur /\ ~d.cur

---------------------------------------------------------------------------
(* Claims about the fan-out (specification Spec) *)

Resolved(sends) == {n \in Providers : sends[n] = "resolved"}

\* C2: processMessage never rejects, and the services list of its result
\* holds exactly the notifiers whose send resolved, each once, whatever the
\* other sends did.
C2_ServicesAreTheResolved ==
    /\ returned.status \in {"none", "resolved"}
    /\ ~returned.null =>
         /\ Range(returned.services) = Resolved(returned.sends)
         /\ Len(returned.services) = Cardinality(Resolved(returned.sends))
    /\ \A c \in Suspended : Range(c.sentVia) = Resolved(c.sends)

\* a call resolved with one provider listed although the other one failed
C2_Witness ==
    /\ returned.status = "resolved"
    /\ ~returned.null
    /\ \E n, m \in Providers :
         /\ returned.sends[n] = "resolved"
         /\ returned.sends[m] = "rejected"
         /\ returned.services = <<n>>

\* C3: a suspended call has invoked send on every active notifier, and a
\* call settles only when every one of these sends has settled.
C3_AllInvokedAllSettled ==
    /\ \A c \in Suspended :
         \A n \in Providers : (c.sends[n] # "none") <=> (n \in notifiers)
    /\ ~returned.null =>
         \A n \in Providers :
             IF n \in notifiers
             THEN returned.sends[n] \in {"resolved", "rejected"}
             ELSE returned.sends[n] = "none"

\* a call stays suspended after the failure of one send, the other pending
C3_Witness ==
    \E c \in Suspended :
        \E n, m \in Providers : c.sends[n] = "rejected" /\ c.sends[m] = "pending"

---------------------------------------------------------------------------
(* Claims about notifier objects (specification SpecNotifier) *)

\* the field of the configuration handed to the constructor is valid
GivenValid(key) ==
    validateField(notifier.cls, key, Get(notifier.given.fields, key))

\* every required field of the given configuration is present and valid
RequiredValid ==
    \A key \in RequiredKeys(notifier.cls) :
        ~isMissing(Get(notifier.given.fields, key)) /\ GivenValid(key)

\* every optional field of the given configuration is absent or valid
OptionalValid ==
    \A key \in FieldKeys(notifier.cls) \ RequiredKeys(notifier.cls) :
        Get(notifier.given.fields, key) = Undefined \/ GivenValid(key)

\* C11, as stated: a notifier built from an enabled configuration whose
\* required fields are all valid is active.
C11_RequiredValidIsActive ==
    (notifier.built /\ notifier.given.enabled /\ RequiredValid) => notifier.isSetup

\* C11, amended: a notifier built from an enabled configuration in which
\* every required field is valid and every optional field is absent or valid
\* is active; with one required field missing or invalid it is in metadata
\* mode.
C11_AllValidIsActive ==
    notifier.built =>
        /\ (notifier.given.enabled /\ RequiredValid /\ OptionalValid) => notifier.isSetup
        /\ ~RequiredValid => isMetadataMode(notifier)

\* an enabled configuration one of whose required fields is invalid, all
\* other fields valid, gave a notifier in metadata mode
C11_Witness ==
    /\ notifier.built
    /\ notifier.given.enabled
    /\ OptionalValid
    /\ \E key \in RequiredKeys(notifier.cls) :
         Get(notifier.given.fields, key) = BadValue(notifier.cls, key)
    /\ isMetadataMode(notifier)

\* C12: a notifier is active only if its configuration was enabled and every
\* declared field, after defaulting, passed its required and validate check;
\* otherwise it is in metadata mode; the constructor has no third outcome.
C12_ActiveOnlyIfEnabledAndValid ==
    notifier.built =>
        /\ notifier.isSetup \in BOOLEAN
        /\ notifier.isSetup <=>
             /\ notifier.given.enabled
             /\ \A key \in FieldKeys(notifier.cls) :
                  LET value == Get(notifier.config.fields, key) IN
                  /\ validateField(notifier.cls, key, value)
                  /\ registerVariables(notifier.cls)[key].required => ~isMissing(value)

\* an enabled webhook configuration with a valid url and an invalid optional
\* field was left in metadata mode
C12_Witness ==
    /\ notifier.built
    /\ notifier.cls = "webhook"
    /\ notifier.given.enabled
    /\ RequiredValid
    /\ ~OptionalValid
    /\ isMetadataMode(notifier)

\* C13: send() on a notifier in metadata mode returns a promise rejected with
\* the "not properly configured" error, starts no transport call and does
\* not throw to its caller.
C13_MetadataSendRejects ==
    (sent.called /\ isMetadataMode(notifier)) =>
        /\ sent.state = "rejected"
        /\ sent.error = "not properly configured"
        /\ ~sent.transport
        /\ ~sent.threw

\* send() was called on a notifier that is in metadata mode although its
\* configuration is valid, because it is not enabled
C13_Witness ==
    /\ sent.called
    /\ isMetadataMode(notifier)
    /\ ~notifier.given.enabled
    /\ RequiredValid
    /\ OptionalValid
    /\ sent.state = "rejected"

\* C14: after construction an optional field that was absent holds its
\* descriptor's default, a field that was present holds the value supplied,
\* an absent required field is still absent, and then validate() is false.
C14_DefaultsOnlyForAbsentOptional ==
    notifier.built =>
        \A key \in FieldKeys(notifier.cls) :
            LET given == Get(notifier.given.fields, key)
                now == Get(notifier.config.fields, key)
                variable == registerVariables(notifier.cls)[key]
            IN  /\ (given = Undefined /\ ~variable.required) => now = variable.default
                /\ given # Undefined => now = given
                /\ (given = Undefined /\ variable.required) =>
                     /\ now = Undefined
                     /\ ~validate(notifier.cls, notifier.config)

\* a notifier was built from a configuration with an absent optional field,
\* a present one and an absent required one
C14_Witness ==
    /\ notifier.built
    /\ notifier.cls = "Prowl"
    /\ Get(notifier.given.fields, apiKey) = Undefined
    /\ Get(notifier.given.fields, priority) = Undefined
    /\ Get(notifier.given.fields, application) = Str("irc")
    /\ Get(notifier.config.fields, priority) = Num(0)
    /\ Get(notifier.config.fields, application) = Str("irc")

---------------------------------------------------------------------------
(* Claims about configuration commands (specification SpecConfig) *)

\* the entry of the service a command was about, in a document; a service
\* without an entry reads as its default entry, as handleConfig reads it
EntryIn(d) ==
    IF d.services[cmd.cls].present THEN d.services[cmd.cls]
    ELSE defaultServiceConfig(cmd.cls)

ServiceCmd == cmd.count > 0 /\ cmd.category = "service"

\* the value of the last command is valid for the field `key`
ValidFor(key) ==
    /\ parseValue(cmd.cls, key, cmd.value) # NaN
    /\ validateField(cmd.cls, key, parseValue(cmd.cls, key, cmd.value))

\* C15: handleConfig with any casing of a declared field name and a valid
\* value succeeds, stores the value under the declared name, creates no key
\* under the submitted casing, and names the declared field in its message.
C15_CanonicalKeyStored ==
    ServiceCmd =>
        \A key \in FieldKeys(cmd.cls) :
            (cmd.setting \in Casings(key) /\ ValidFor(key)) =>
                /\ cmd.result.success
                /\ Get(doc.services[cmd.cls].fields, key)
                       = parseValue(cmd.cls, key, cmd.value)
                /\ cmd.setting # key => cmd.setting \notin DOMAIN doc.services[cmd.cls].fields
                /\ cmd.result.named = key

\* APIKEY was set on Prowl and the value landed under apiKey
C15_Witness ==
    /\ ServiceCmd
    /\ cmd.cls = "Prowl"
    /\ cmd.setting = upperCaseName(apiKey)
    /\ cmd.result.success
    /\ doc.services["Prowl"].fields[apiKey] = Str(Key40)

\* C16: a setting name that matches no declared field gives success=false
\* with the list of the valid names, leaves the document passed in exactly as
\* it was, and nothing is persisted.
C16_UnknownLeavesDocument ==
    (ServiceCmd /\ \A key \in FieldKeys(cmd.cls) : cmd.setting \notin Casings(key)) =>
        /\ ~cmd.result.success
        /\ cmd.result.kind = "unknown"
        /\ cmd.result.valid = FieldKeys(cmd.cls)
        /\ ~cmd.saved
        /\ doc = cmd.before

-------------------------------------------------------------------------------------------------------------------------------------------
(* Claims about the manager built from a document (specification           *)
(* SpecManager)                                                             *)

\* the entry of the document `d` under the service key `k` yields a notifier
\* in active state: it is enabled, its module loads, and the notifier built
\* from it is not in metadata mode
YieldsActive(d, k) ==
    /\ d.services[k].present
    /\ d.services[k].enabled
    /\ loadable(k, host.caseSensitive)
    /\ ~isMetadataMode(construct(classOfFile(lowerKey(k)), d.services[k]))

\* C18: the notifier map of a manager built from a document holds exactly
\* the notifiers of the services that are enabled and reached active state:
\* a disabled entry, an entry failing validation and an entry whose module
\* does not load add nothing, whatever the other entries are, and
\* processMessage invokes send on notifiers of the map only.
C18_MapIsEnabledAndActive ==
    host.hasManager =>
        /\ \A k \in DOMAIN doc.services :
             YieldsActive(doc, k) => classOfFile(lowerKey(k)) \in notifiers
        /\ \A n \in notifiers :
             \E k \in DOMAIN doc.services :
                 YieldsActive(doc, k) /\ classOfFile(lowerKey(k)) = n
        /\ \A i \in DOMAIN cycle : cycle[i].invoked \subseteq notifiers

\* a manager built from a document with an enabled entry that fails
\* validation, an enabled entry whose module does not load and a valid one;
\* a call has invoked send on exactly the valid one
C18_Witness ==
    /\ host.hasManager
    /\ doc.services["webhook"].enabled
    /\ ~validate("webhook", applyDefaults("webhook", doc.services["webhook"]))
    /\ doc.services["bogus"].present /\ doc.services["bogus"].enabled
    /\ ~loadable("bogus", host.caseSensitive)
    /\ notifiers = {"Prowl"}
    /\ \E i \in DOMAIN cycle : cycle[i].outcome = "sent" /\ cycle[i].invoked = {"Prowl"}

\* C20: after a filter command succeeded and was persisted while
\* notifications are enabled, the engine decides the next inbound event with
\* the value the command wrote: its verdict is the one the persisted
\* filters give.
C20_EngineReadsMutatedConfig ==
    (/\ host.enabled /\ host.hasManager
     /\ cmd.category = "filter" /\ cmd.saved
     /\ direct.called)
        => direct.verdict = shouldNotify(host.stored.filters, direct.event, direct.client)

---------------------------------------------------------------------------
(* Claims about the scope of the configuration (specification SpecHost) *)

\* the step is a command of the identity `id` that writes configuration
CommandOf(id) ==
    /\ io'.count = io.count + 1
    /\ io'.op \in {"enable", "disable", "filter"}
    /\ io'.id = id

\* C21: a configuration change or an enable/disable issued for one
\* (user, network) pair leaves the document later loaded for another network
\* of the same user as it was.
C21_OtherNetworkUnaffected ==
    [][\A id, other \in Identities :
          (/\ CommandOf(id)
           /\ other # id
           /\ userOf(other) = userOf(id))
              => load(disk'[configPath(other)]) = load(disk[configPath(other)])]_vars

\* C25: when save returns false during a command that changes the
\* configuration, the command reports a failure to its caller, and the
\* change it made in memory before the save stays.
C25_FailedSaveIsReported ==
    (/\ io.op \in {"enable", "disable", "filter"}
     /\ io.saveCalled
     /\ ~io.saveRet)
        => /\ ~io.success
           /\ io.op = "enable" => pluginState[io.id].enabled
           /\ io.op = "disable" => ~pluginState[io.id].enabled

\* C30: while notifications are disabled for an identity (no enable command
\* yet, or a disable command since the last one), and for every message of
\* the identity itself or of a type other than message, action and notice,
\* handleTheloungeMessage calls no processMessage and so starts no send; a
\* disable command leaves the sends in flight as they are.
C30_NoProcessingWhileDisabled ==
    [][/\ io'.op = "message" =>
            ((\/ ~io'.commanded
              \/ io'.msg.self
              \/ io'.msg.type \notin EventTypes)
                => /\ ~io'.called
                   /\ pluginState'[io'.id].pending = pluginState[io'.id].pending)
       /\ (io'.op = "disable" /\ io'.count = io.count + 1) =>
            \A id \in Identities : pluginState'[id].pending = pluginState[id].pending]_vars

-----------
(* Claims about the config store (specification SpecStore) *)

\* the document has every field, each of its type
FullyPopulated(d) ==
    /\ d.t = "object"
    /\ d.f.enabled.t = "boolean"
    /\ d.f.services.t = "object"
    /\ d.f.filters.t = "object"
    /\ \A k \in {"onlyWhenAway", "highlights"} : d.f.filters.f[k].t = "boolean"
    /\ d.f.format.t = "object"
    /\ \A k \in {"title", "titleWithChannel", "message", "actionMessage"} :
         d.f.format.f[k].t = "string"

\* the field `name` of `part` in the document is the one of the file when
\* that one has the type, and the default otherwise
KeptOrDefault(got, raw, name, type, dflt) ==
    got = IF prop(raw, name).t = type THEN prop(raw, name) ELSE dflt

\* C22: load() never throws and returns, for every state of the file, a
\* fully populated document (boolean enabled, object services, boolean
\* filters, four string templates) in which every field of the right type
\* is the one of the file and every other field is the default; a file that
\* is absent, unreadable or not JSON gives the default document.
C22_LoadAlwaysPopulated ==
    io.op = "load" =>
        LET file == disk[StoreUser]
            d == io.ret.value
            dflt == getDefaultConfig.f
        IN  /\ ~io.ret.threw
            /\ FullyPopulated(d)
            /\ file.kind # "text" => d = getDefaultConfig
            /\ (file.kind = "text" /\ file.json.t = "object") =>
                 /\ KeptOrDefault(d.f.enabled, file.json, "enabled", "boolean", dflt.enabled)
                 /\ \A k \in {"onlyWhenAway", "highlights"} :
                      KeptOrDefault(d.f.filters.f[k], prop(file.json, "filters"), k,
                                    "boolean", dflt.filters.f[k])
                 /\ \A k \in {"title", "titleWithChannel", "message", "actionMessage"} :
                      KeptOrDefault(d.f.format.f[k], prop(file.json, "format"), k,
                                    "string", dflt.format.f[k])

\* the step is a call of save
SaveStep == io'.op = "save" /\ io'.count = io.count + 1

\* C23: save(config) never throws; it returns true only once the validated
\* document is what the file holds, returns false when the directory cannot
\* be created or written, the write fails or validation raises, and a save
\* that returned false leaves the stored document as it was.
C23_SaveFailsClean ==
    [][SaveStep =>
          /\ ~io'.ret.threw
          /\ truthy(io'.ret.value) =>
                /\ ~validateConfig(io'.config).threw
                /\ disk'[StoreUser] =
                       TextOf(jsonRoundTrip(validateConfig(io'.config).value))
          /\ (\/ io'.storage \in {"mkdirFails", "notWritable", "writeFails"}
              \/ validateConfig(io'.config).threw) => ~truthy(io'.ret.value)
          /\ ~truthy(io'.ret.value) => disk' = disk]_vars

\* the load came right after a save that returned true
LoadAfterSave == io.op = "load" /\ io.afterSave

\* every value of the document is one JSON writes as it is: no property of
\* a service entry is undefined or NaN
JsonSafe(config) ==
    LET svc == prop(config, "services") IN
    svc.t = "object" =>
        \A k \in DOMAIN svc.f :
            svc.f[k].present =>
                \A j \in DOMAIN svc.f[k].fields :
                    svc.f[k].fields[j] \notin {Undefined, NaN}

\* C24 as stated: for every config c, load() after a successful save(c)
\* returns validateConfig(c), and what load returns is a fixed point of
\* validateConfig.
C24_LoadReturnsSaved ==
    /\ io.op = "load" => validateConfig(io.ret.value).value = io.ret.value
    /\ LoadAfterSave => io.ret.value = validateConfig(io.saved).value

\* C24, amended: the same for every config c whose values JSON writes as
\* they are; a document that load returned, saved and loaded again, comes
\* back equal.
C24_LoadReturnsSavedJson ==
    /\ io.op = "load" => validateConfig(io.ret.value).value = io.ret.value
    /\ (LoadAfterSave /\ JsonSafe(io.saved)) =>
          /\ io.ret.value = validateConfig(io.saved).value
          /\ validateConfig(io.saved).value = io.saved => io.ret.value = io.saved

\* a config with wrongly typed fields was saved over another document and
\* loaded back
C24_Witness ==
    /\ LoadAfterSave
    /\ prop(io.saved, "filters") = Num(5)
    /\ prop(io.saved, "enabled") = Str("true")
    /\ io.ret.value.f.filters.f.highlights = Bool(TRUE)
    /\ io.ret.value # io.saved

---------------------------------------------------------------------------
(* Claims about the two validations (specification SpecValidate) *)

---------------------------------------------------------------------------
(* Claims about the template engine (specification SpecTemplate) *)

\* the text a placeholder stands for: the value of its variable, nothing
\* when the variable is missing or empty
renderedPiece(piece, variables) ==
    IF \E key \in {chars("nick"), chars("message")} : piece = placeholder(key)
    THEN LET key == CHOOSE k \in {chars("nick"), chars("message")} : piece = placeholder(k)
             value == valueOf(variables, key) IN
         IF truthy(value) THEN charsOf(value) ELSE <<>>
    ELSE piece

\* the string s holds the text pat
occursIn(pat, s) == \E i \in 1..Len(s) : matchAt(s, i, pat)

\* C27: process replaces every occurrence of every placeholder of the
\* template by the value of its variable, repeated occurrences included; a
\* placeholder whose variable is missing or empty renders as the empty string
\* and does not remain in the output as {{key}}
C27_EveryPlaceholderReplaced ==
    (probe.fn = "process" /\ probe.template.t = "string") =>
        /\ probe.out =
             concat([i \in DOMAIN probe.pieces |->
                        renderedPiece(probe.pieces[i], probe.variables)])
        /\ \A key \in {chars("nick"), chars("message")} :
             ~truthy(valueOf(probe.variables, key)) =>
                 ~occursIn(placeholder(key), probe.out)

---------------------------------------------------------------------------
(* Claims about formatNotification (specification SpecFormat) *)

\* the format in use: the configured one, or the defaults
formatInUse == IF truthy(probe.format) THEN probe.format ELSE getDefaults

\* the templates are chosen by the policy: titleWithChannel exactly when the
\* channel starts with '#' and that template is configured, actionMessage
\* exactly when the type is action and that template is configured
TemplatesByPolicy ==
    LET e == probe.messageData
        tc == prop(formatInUse, "titleWithChannel")
        am == prop(formatInUse, "actionMessage") IN
    /\ probe.out.titleTemplate =
         IF startsWithHash(e.channel) /\ truthy(tc) THEN tc ELSE prop(formatInUse, "title")
    /\ probe.out.messageTemplate =
         IF e.type = "action" /\ truthy(am) THEN am ELSE prop(formatInUse, "message")

\* with the default templates the title is 'network - #channel' for a
\* channel and 'network' otherwise, the body '* nick text' for an action and
\* '<nick> text' otherwise
DefaultRendering ==
    LET e == probe.messageData IN
    formatInUse = getDefaults =>
        /\ probe.out.title =
             IF startsWithHash(e.channel)
             THEN e.network \o <<" ", "-", " ">> \o e.channel
             ELSE e.network
        /\ probe.out.message =
             IF e.type = "action"
             THEN <<"*", " ">> \o e.nick \o <<" ">> \o e.message
             ELSE <<"<">> \o e.nick \o <<">", " ">> \o e.message

\* C28: formatNotification selects the title and body templates by the
\* policy, and with the default templates renders 'network - #channel' and
\* '<nick> text' for a channel message, '* nick text' for an action and the
\* title 'network' for a private message
C28_TemplatesByPolicyAndDefaultRendering ==
    probe.fn = "formatNotification" => TemplatesByPolicy /\ DefaultRendering

---------------------------------------------------------------------------
(* Claims about the registerVariables setter (specification SpecSetter) *)

\* the attribute of the normalized descriptor is the one the provider gave,
\* or else the stated default
GivenOr(key, attribute, fallback) ==
    /\ hasOwnProperty(probe.current[key], attribute)
    /\ probe.current[key][attribute] =
         IF hasOwnProperty(probe.raw[key], attribute)
         THEN probe.raw[key][attribute]
         ELSE fallback

\* C29: after a raw field map is assigned to registerVariables every
\* descriptor has the five attributes default, example, required, validate
\* and validationError (required defaulting to false, example to default,
\* validationError to 'Invalid value for <field>', validate to always-true),
\* and assigning the normalized map again changes nothing
C29_FiveAttributesAndIdempotent ==
    (probe.fn = "registerVariables" /\ probe.count >= 1) =>
        /\ \A key \in DOMAIN probe.current :
             /\ \A a \in Attributes : hasOwnProperty(probe.current[key], a)
             /\ GivenOr(key, "required", Bool(FALSE))
             /\ GivenOr(key, "example", probe.current[key]["default"])
             /\ GivenOr(key, "validationError", Str("Invalid value for " \o str(key)))
             /\ GivenOr(key, "validate", Fn("() => true"))
        /\ probe.count >= 2 => probe.current = probe.before

---------------------------------------------------------------------------
(* Claims about the version check (specification SpecVersion) *)

\* the (major, minor, patch) triple of a version, missing parts read as 0
tripleOf(v) == [i \in 1..3 |-> IF i <= Len(v.parts) THEN v.parts[i] ELSE 0]

\* the sign of the lexicographic comparison of two triples
signOf(x, y) ==
    IF x = y THEN 0
    ELSE LET i == CHOOSE k \in 1..3 : x[k] # y[k] /\ \A j \in 1..(k - 1) : x[j] = y[j] IN
         IF x[i] < y[i] THEN -1 ELSE 1

\* C31: compareVersions(a, b) is the sign of the lexicographic comparison of
\* the integer triples of a and b, a leading v ignored and missing parts
\* read as 0; it is antisymmetric and 0 exactly when the triples are equal;
\* checkForUpdate reports updateAvailable exactly when the result is -1
C31_SignOfTripleComparison ==
    probe.fn = "checkForUpdate" =>
        LET a == versionText(probe.a.prefixed, probe.a.parts)
            b == versionText(probe.b.prefixed, probe.b.parts) IN
        /\ compareVersions(a, b) = signOf(tripleOf(probe.a), tripleOf(probe.b))
        /\ compareVersions(a, b) = -compareVersions(b, a)
        /\ compareVersions(a, b) = 0 <=> tripleOf(probe.a) = tripleOf(probe.b)
        /\ probe.out.updateAvailable <=>
             (probe.outcome = "package" /\ compareVersions(a, b) = -1)

\* an update is reported for v2.10 against 2.10.2: the v is ignored, the
\* missing patch reads as 0 and 10 is read as a number
C31_Witness ==
    /\ probe.fn = "checkForUpdate"
    /\ probe.outcome = "package"
    /\ probe.a = [prefixed |-> TRUE, parts |-> <<2, 10>>]
    /\ probe.b = [prefixed |-> FALSE, parts |-> <<2, 10, 2>>]
    /\ probe.out.updateAvailable

---------------------------------------------------------------------------
(* Claims about failed notifications (specification SpecRetry) *)

\* the step is a call of processMessage that got past shouldNotify
PassingCall == Len(cycle') = Len(cycle) + 1

\* C32: the dedup key is recorded when the sends are invoked and stays
\* recorded when they fail: the key of a call of this cycle that is suspended
\* or that returned with every send failed is in the dedup set, and an
\* identical event arriving before the next tick returns null and invokes
\* no send
C32_FailedIsNotRetried ==
    /\ [](\A c \in Suspended : c.cur => c.key \in recentNotifications)
    /\ [](probe.fn = "results" => probe.failed \subseteq recentNotifications)
    /\ [][(probe.fn = "results" /\ PassingCall
             /\ cycle'[Len(cycle')].key \in probe.failed)
          => /\ returned' = NullResult
             /\ inflight' = inflight
             /\ cycle'[Len(cycle')].outcome = "null"
             /\ cycle'[Len(cycle')].invoked = {}]_vars

\* every send of an event failed and its call returned an empty services
\* list; the same event came again in the cycle and was turned away
C32_Witness ==
    /\ probe.fn = "results"
    /\ notifiers = Providers
    /\ returned = NullResult
    /\ inflight = EmptyBag
    /\ cycle # <<>>
    /\ cycle[Len(cycle)].outcome = "null"
    /\ cycle[Len(cycle)].key \in probe.failed
    /\ \E i \in 1..(Len(cycle) - 1) :
         cycle[i].event = cycle[Len(cycle)].event /\ cycle[i].outcome = "sent"

---------------------------------------------------------------------------
(* Claims about the dedup window across commands (specification SpecWindow) *)

\* C33: within one dedup window an identical event is notified at most once,
\* also when a service is enabled or disabled or notifications are enabled
\* again in between: a passing call whose key was notified since the last
\* cleanup tick returns null
C33_OncePerWindowAcrossCommands ==
    [][(probe.fn = "window" /\ PassingCall
          /\ cycle'[Len(cycle')].key \in probe.notified)
       => cycle'[Len(cycle')].outcome = "null"]_vars

---------------------------------------------------------------------------
(* Claims about the services key (specification SpecService) *)

\* the entry the config command wrote for the class is complete and
\* enabled, and the manager of the enabled plugin was built from the
\* stored document
ConfiguredThenEnabled(cls) ==
    /\ host.enabled
    /\ host.hasManager
    /\ doc = host.stored
    /\ host.stored.services[cls].present
    /\ host.stored.services[cls].enabled
    /\ validate(cls, host.stored.services[cls])

PerServiceCommands == {"enable service", "disable service", "test service"}

\* C34: for every provider, once the config command has stored the required
\* field of the service and enable has built the manager, an enable, a
\* disable or a test that names the service finds it: the command does not
\* answer that the service is not configured or not found.
C34_PerServiceCommandsFindTheService ==
    [][(/\ cmd'.category \in PerServiceCommands
        /\ cmd'.count = cmd.count + 1
        /\ ConfiguredThenEnabled(cmd'.cls))
       => cmd'.result.kind \notin {"not configured", "not found"}]_vars

\* C35: a service the user disabled with `disable <service>` stays disabled
\* until an explicit enable: a config command that follows the disable and
\* changes a field of that service leaves its enabled flag false.
C35_DisabledStaysDisabled ==
    [][(/\ cmd.category = "disable service"
        /\ cmd.result.kind = "switched"
        /\ cmd'.category = "service"
        /\ cmd'.count = cmd.count + 1)
       => ~host'.stored.services[cmd.cls].enabled]_vars

---------------------------------------------------------------------------
(* Claims about filtered events (specification SpecFiltered) *)

\* the step is a call of processMessage that shouldNotify turned away: it
\* returns null and is not a call that got past the filter
FilteredCall ==
    /\ returned = NoReturn
    /\ returned' = NullResult
    /\ cycle' = cycle

\* C36: a processMessage call that returns null because shouldNotify
\* rejected the event leaves the dedup set unchanged and invokes no send,
\* and it does not suppress a later event of the same cycle with the same
\* dedup key that passes the filter: unless a passing call of the cycle has
\* recorded the key, that event invokes the sends.
C36_FilteredCallLeavesNoTrace ==
    /\ [][FilteredCall => /\ recentNotifications' = recentNotifications
                          /\ inflight' = inflight]_vars
    /\ [][(/\ probe.fn = "filtered"
           /\ PassingCall
           /\ cycle'[Len(cycle')].key \in probe.rejected
           /\ \A i \in DOMAIN cycle : cycle[i].key # cycle'[Len(cycle')].key)
          => /\ cycle'[Len(cycle')].outcome = "sent"
             /\ cycle'[Len(cycle')].invoked = notifiers
             /\ cycle'[Len(cycle')].key \in recentNotifications']_vars

\* an event was filtered out, and an event with the same key that came
\* later in the cycle invoked the sends of both providers
C36_Witness ==
    /\ probe.fn = "filtered"
    /\ notifiers = Providers
    /\ probe.later # {}
    /\ \E i \in DOMAIN cycle :
         /\ cycle[i].key \in probe.later
         /\ cycle[i].outcome = "sent"
         /\ cycle[i].invoked = Providers

---------------------------------------------------------------------------
(* Claims about message monitoring (specification SpecMonitor) *)

\* the document stored for the identity has enabled = true and a service
\* that the manager activates
PersistedEnabled ==
    LET config == load(disk[configPath(MonitorId)]).value IN
    /\ truthy(config.f.enabled)
    /\ initializeNotifiers(servicesOf(config), TRUE) # {}

\* C37: when the persisted configuration of an identity has enabled = true
\* and an active service, and notifications were not switched off since, a
\* highlighted message of another user pushed to a channel of the network
\* is handed to processMessage, whether or not a /notify command was issued
\* since the process started.
C37_MonitoringFromStartup ==
    (/\ io.op = "push"
     /\ PersistedEnabled
     /\ pluginState[MonitorId].created => pluginState[MonitorId].enabled
     /\ io.msg.highlight
     /\ ~io.msg.self
     /\ io.msg.type \in EventTypes)
        => io.dispatched >= 1

\* C38: whatever enable, disable and per-service commands were issued and
\* whatever channels were added to the network, a pushMessage call on a
\* channel calls the host's original pushMessage exactly once and returns
\* its result, and calls handleTheloungeMessage at most once, so that one
\* message starts at most one processMessage.
C38_OneOriginalAtMostOneHandler ==
    /\ \A c \in ChannelObjects : host.network.channels[c].layers <= 1
    /\ io.op = "push" =>
         /\ io.original = 1
         /\ io.result = "host result"
         /\ io.handled <= 1
         /\ io.dispatched <= 1

\* after two commands and with a channel that was handed to addChannel
\* twice, a message pushed to that channel went to the original once and to
\* processMessage once
C38_Witness ==
    /\ io.op = "push"
    /\ io.count = MaxCommands
    /\ io.late
    /\ host.network.adds = 2
    /\ \A c \in ChannelObjects : host.network.channels[c].late => c = io.channel
    /\ io.original = 1
    /\ io.handled = 1
    /\ io.dispatched = 1

---------------------------------------------------------------------------
(* Claims about the key as a function of the tuple (specification           *)
(* SpecKeyTuple)                                                            *)

\* the two events agree on network, channel, nick and the first
\* KeyPrefixLen characters of the message
SameTuple(e1, e2) ==
    /\ e1.network = e2.network
    /\ e1.channel = e2.channel
    /\ e1.nick = e2.nick
    /\ substring0(e1.message, KeyPrefixLen) = substring0(e2.message, KeyPrefixLen)

\* C39: getDeduplicationKey is injective on (network, channel, nick, first
\* 50 characters of the message): two events with equal keys agree on every
\* component of that tuple.
C39_KeyInjectiveOnTuple ==
    (keyOut # NoKeys /\ keyOut[1] = keyOut[2]) => SameTuple(keyIn[1], keyIn[2])

---------------------------------------------------------------------------
(* Claims about the substituted values (specification SpecSubst) *)

\* the template with every placeholder replaced by the value of its
\* variable as it is
verbatim(pieces, variables) ==
    concat([i \in DOMAIN pieces |->
              IF pieces[i] = placeholder(chars("nick"))
              THEN charsOf(valueOf(variables, chars("nick")))
              ELSE IF pieces[i] = placeholder(chars("message"))
              THEN charsOf(valueOf(variables, chars("message")))
              ELSE pieces[i]])

\* C40: substitution inserts the value of each variable verbatim and does
\* not scan it again: text inside a value that reads as a placeholder
\* appears unchanged in what process and processTemplate return, and the
\* output does not depend on the order in which the variables are
\* substituted.
C40_ValuesVerbatimAnyOrder ==
    probe.fn = "substitute" =>
        /\ probe.out = verbatim(probe.pieces, probe.variables)
        /\ probe.hook = verbatim(probe.pieces, probe.variables)
        /\ probe.swapped = probe.out

-----------
(* Claims about termination (specification SpecFilterLive) *)

\* C19: processMessage eventually returns for every event: once the call
\* was made, it comes to be neither suspended on its sends nor waiting to
\* hand its result over, even when a send never settles.
C19_EveryCallReturns ==
    direct.called ~> (inflight = EmptyBag /\ returned = NoReturn)

-----------
(* Claims about shouldNotify (specification SpecFilter) *)

IsAway(client) == client.hasUser /\ client.away

\* the direct call left no trace: no key recorded, no send invoked
NoOp == ~direct.verdict /\ recentNotifications = {} /\ cycle = <<>>

\* C5: with filters.onlyWhenAway set and a presence other than away,
\* shouldNotify returns false and processMessage is a no-op, for every event.
C5_NotAwayNeverNotifies ==
    (direct.called /\ filters.onlyWhenAway /\ ~IsAway(direct.client)) => NoOp

\* C6: when onlyWhenAway is off or the identity is away, shouldNotify returns
\* true exactly when filters.highlights and event.highlight are both true,
\* and processMessage records and sends nothing otherwise.
C6_HighlightDecides ==
    (direct.called /\ (~filters.onlyWhenAway \/ IsAway(direct.client))) =>
        IF filters.highlights /\ direct.event.highlight
        THEN direct.verdict /\ cycle # <<>>
        ELSE NoOp

\* an away identity with onlyWhenAway set is notified of a highlight
C6_Witness ==
    /\ direct.called
    /\ filters.onlyWhenAway
    /\ IsAway(direct.client)
    /\ direct.verdict
    /\ recentNotifications # {}

C8_SelfOrForeignTypeIsNoOp ==
    (direct.called /\ (direct.event.self \/ direct.event.type \notin EventTypes))
    => NoOp

---------------------------------------------------------------------------
(* Claims about getDeduplicationKey (specification SpecKey) *)

\* the first KeyPrefixLen characters of s and t are equal (a shorter string
\* is compared in full)
SamePrefix(s, t) ==
    \A i \in 1..KeyPrefixLen :
        /\ (i <= Len(s)) = (i <= Len(t))
        /\ i <= Len(s) => s[i] = t[i]

\* C10: two events with the same network, channel and nick get equal keys
\* exactly when their messages agree on the first 50 characters, whatever
\* their type, timestamp and highlight.
C10_KeyEqualIffPrefixEqual ==
    (/\ keyOut # NoKeys
     /\ keyIn[1].network = keyIn[2].network
     /\ keyIn[1].channel = keyIn[2].channel
     /\ keyIn[1].nick = keyIn[2].nick)
    => ((keyOut[1] = keyOut[2]) <=> SamePrefix(keyIn[1].message, keyIn[2].message))

\* two events that differ in type, timestamp, highlight and after the 50th
\* character of the message got the same key
C10_Witness ==
    /\ keyOut # NoKeys
    /\ keyIn[1].message = MsgLongX
    /\ keyIn[2].message = MsgLongY
    /\ keyIn[1].type # keyIn[2].type
    /\ keyIn[1].timestamp # keyIn[2].timestamp
    /\ keyIn[1].highlight # keyIn[2].highlight
    /\ keyOut[1] = keyOut[2]

====
